---- MODULE Spec2Model ----
(***************************************************************************)
(* Model of the scenario orchestration engine of GCPU_grape                *)
(* (apps/backend/core/agent_executor.py).                                  *)
(*                                                                         *)
(* Text is modelled as a sequence of tokens: a query, a label or a URI is  *)
(* a sequence of strings, the empty text (and Python's None, which the     *)
(* code only ever tests for truthiness) is the empty sequence <<>>.        *)
(* Keywords exist in upper and lower case so that str.upper() is a real    *)
(* conversion; " " is a whitespace token so that str.strip() is one too.   *)
(* A pipeline of assignments x = f(...); y = g(x) is written as nested set *)
(* maps over singletons, {g(x) : x \in {f(...)}}, so that each stage is    *)
(* evaluated once.                                                         *)
(***************************************************************************)
EXTENDS Integers, Sequences, FiniteSets, TLC

(***************************************************************************)
(* Bounds of the model.                                                    *)
(***************************************************************************)
MaxSteps == 2
MaxUris == 2
CountCap == 20

(***************************************************************************)
(* Program constants.                                                      *)
(***************************************************************************)
RegenBound == 7

(***************************************************************************)
(* Text helpers (Python str operations on token sequences).                *)
(***************************************************************************)
WS == " "

UpperTok(t) ==
    CASE t = "select" -> "SELECT"
      [] t = "ask" -> "ASK"
      [] t = "construct" -> "CONSTRUCT"
      [] t = "unknown" -> "UNKNOWN"
      [] t = "Unknown" -> "UNKNOWN"
      [] OTHER -> t

Upper(q) == [i \in 1..Len(q) |-> UpperTok(q[i])]

Contains(q, t) == \E i \in 1..Len(q) : q[i] = t

RECURSIVE LStrip(_)
LStrip(q) == IF q # <<>> /\ Head(q) = WS THEN LStrip(Tail(q)) ELSE q

RECURSIVE RStrip(_)
RStrip(q) ==
    IF q # <<>> /\ q[Len(q)] = WS THEN RStrip(SubSeq(q, 1, Len(q) - 1)) ELSE q

Strip(q) == RStrip(LStrip(q))

StartsWith(q, t) == q # <<>> /\ Head(q) = t

\* str.replace of a placeholder token by the token r.
Replace(q, t, r) == [i \in 1..Len(q) |-> IF q[i] = t THEN r ELSE q[i]]

(***************************************************************************)
(* URIs and the scenario table.                                            *)
(***************************************************************************)
UriA == <<"http:", "/", "/", "example.org", "/", "psychiatry", "/", "ChronicStress">>
UriB == <<"http:", "/", "/", "example.org", "/", "hearing", "/", "HearingLoss">>
UriPool == {UriA, UriB}

\* f"<{uri}>": the URI between angle brackets, one token of a query text.
UriRef(u) ==
    CASE u = UriA -> "<http://example.org/psychiatry/ChronicStress>"
      [] u = UriB -> "<http://example.org/hearing/HearingLoss>"

\* The ids execute_scenario accepts: the loaded table minus the federation
\* scenario; "scenario_5_custom" stands for any other scenario_*.json file
\* of the prompts directory, which has no registered template.
ScenarioIds ==
    {"scenario_1_neighbourhood", "scenario_2_multihop",
     "scenario_4_validation", "scenario_5_custom"}

\* context["concept_uris"]: appended only when not yet present (no duplicates).
UriLists ==
    {l \in UNION {[1..n -> UriPool] : n \in 0..MaxUris} :
        \A i, j \in 1..Len(l) : i # j => l[i] # l[j]}

(***************************************************************************)
(* Deterministic query templates.                                          *)
(***************************************************************************)
DiagnosticQuery ==
    <<"SELECT", "?s", "?p", "?o", "WHERE", "{", "?s", "?p", "?o", "}",
      "LIMIT", "1">>

TemplateNeighbourhoodQuery(uris) ==
    IF uris = <<>> THEN <<>>
    ELSE <<"PREFIX", "rdfs:", "SELECT", "?source", "?relation", "?target",
           "WHERE", "{", "VALUES", "?source", "{">> \o <<UriRef(uris[1])>>
         \o <<"}", "?source", "?relation", "?target", "}", "LIMIT", "100">>

\* Line 1257 binding the first URI again instead of the second.
TemplateMultihopQuery_SourceTwice(uris) ==
    IF Len(uris) < 2 THEN <<>>
    ELSE <<"PREFIX", "rdfs:", "SELECT", "?source", "?relation1",
           "?intermediate1", "?relation2", "?intermediate2", "?relation3",
           "?target", "WHERE", "{", "BIND(">> \o <<UriRef(uris[1])>>
         \o <<"AS", "?source", ")", "BIND(">> \o <<UriRef(uris[1])>>
         \o <<"AS", "?target", ")", "{", "1hop", "}", "UNION", "{", "2hop",
              "}", "UNION", "{", "3hop", "}", "}", "LIMIT", "50">>

TemplateMultihopQuery(uris) ==
    IF Len(uris) < 2 THEN <<>>
    ELSE <<"PREFIX", "rdfs:", "SELECT", "?source", "?relation1",
           "?intermediate1", "?relation2", "?intermediate2", "?relation3",
           "?target", "WHERE", "{", "BIND(">> \o <<UriRef(uris[1])>>
         \o <<"AS", "?source", ")", "BIND(">> \o <<UriRef(uris[2])>>
         \o <<"AS", "?target", ")", "{", "1hop", "}", "UNION", "{", "2hop",
              "}", "UNION", "{", "3hop", "}", "}", "LIMIT", "50">>

\* Lines 1339-1344: the predicates the validation template accepts.
PredicateAllowlist ==
    <<"<http://example.org/hearing/hasTreatment>",
      "<http://example.org/hearing/managedBy>",
      "<http://example.org/hearing/requiresTreatment>",
      "<http://example.org/hearing/recommendedTreatment>">>

\* Line 1338 with the object URI in the triple pattern.
TemplateValidationQuery_ObjectInPattern(uris) ==
    IF Len(uris) < 2 THEN <<>>
    ELSE <<"PREFIX", "rdfs:", "SELECT", "?relation", "?target", "WHERE",
           "{">> \o <<UriRef(uris[1])>> \o <<"?relation">>
         \o <<UriRef(uris[2])>>
         \o <<"FILTER", "(", "?relation", "IN", "(">> \o PredicateAllowlist
         \o <<")", ")", "BIND(", "?target", "=">> \o <<UriRef(uris[2])>>
         \o <<"AS", "?matchesAssertion", ")", "}", "LIMIT", "50">>

TemplateValidationQuery(uris) ==
    IF Len(uris) < 2 THEN <<>>
    ELSE <<"PREFIX", "rdfs:", "SELECT", "?relation", "?target", "WHERE",
           "{">> \o <<UriRef(uris[1])>>
         \o <<"?relation", "?target", "FILTER", "(", "?relation", "IN", "(">>
         \o PredicateAllowlist
         \o <<")", ")", "BIND(", "?target", "=">> \o <<UriRef(uris[2])>>
         \o <<"AS", "?matchesAssertion", ")", "}", "LIMIT", "50">>

\* Lines 1288-1327: the cross-graph alignment template.
TemplateFederationQuery(uris) ==
    IF Len(uris) >= 2
    THEN <<"PREFIX", "owl:", "PREFIX", "rdfs:", "SELECT", "?concept1",
           "?concept2", "?bridge", "WHERE", "{", "VALUES", "?concept1", "{">>
         \o <<UriRef(uris[1])>> \o <<"}", "VALUES", "?concept2", "{">>
         \o <<UriRef(uris[2])>>
         \o <<"}", "{", "?concept1", "owl:sameAs", "?concept2", "}", "UNION",
              "{", "?concept1", "owl:sameAs", "?bridge", ".", "?concept2",
              "owl:sameAs", "?bridge", "}", "}", "LIMIT", "50">>
    ELSE <<"PREFIX", "owl:", "PREFIX", "rdfs:", "SELECT", "?concept1",
           "?concept2", "WHERE", "{", "?concept1", "owl:sameAs", "?concept2",
           "FILTER", "(", "hearing", "psychiatry", ")", "}", "LIMIT", "50">>

\* self.scenario_templates.get(scenario_id), applied; <<>> is "no template
\* registered" or "the template returned None".
ScenarioTemplate(scenario, uris) ==
    CASE scenario = "scenario_1_neighbourhood" -> TemplateNeighbourhoodQuery(uris)
      [] scenario = "scenario_2_multihop" -> TemplateMultihopQuery(uris)
      [] scenario = "scenario_4_validation" -> TemplateValidationQuery(uris)
      [] OTHER -> <<>>

BuildFallbackSparql(scenario, uris) ==
    IF scenario = "scenario_2_multihop" /\ Len(uris) >= 2
    THEN <<"PREFIX", "rdfs:", "SELECT", "?intermediate", "?relation1",
           "?relation2", "?intermediateLabel", "WHERE", "{">>
         \o <<UriRef(uris[1])>> \o <<"?relation1", "?intermediate", ".",
           "?intermediate", "?relation2">> \o <<UriRef(uris[2])>>
         \o <<"}", "LIMIT", "25">>
    ELSE IF scenario = "scenario_4_validation" /\ Len(uris) >= 2
    THEN <<"SELECT", "?relation", "WHERE", "{">> \o <<UriRef(uris[1])>>
         \o <<"?relation">> \o <<UriRef(uris[2])>> \o <<"}", "LIMIT", "10">>
    ELSE <<>>

TemplateMarkers ==
    {"{{SOURCE_URI}}", "{{TARGET_URI}}", "{{CONCEPT_URI}}", "<SOURCE_URI>",
     "<TARGET_URI>", "<CONCEPT_URI>", "__USE_TEMPLATE__"}

\* Lines 1221-1222 dropped: a marker left in the text is not looked for.
ShouldApplyTemplate_NoMarkers(query) ==
    \/ Strip(query) = <<>>
    \/ LET upper == Upper(LStrip(query))
       IN  /\ ~StartsWith(upper, "SELECT")
           /\ ~StartsWith(upper, "ASK")
           /\ ~StartsWith(upper, "CONSTRUCT")

ShouldApplyTemplate(query) ==
    \/ Strip(query) = <<>>
    \/ \E m \in TemplateMarkers : Contains(query, m)
    \/ LET upper == Upper(LStrip(query))
       IN  /\ ~StartsWith(upper, "SELECT")
           /\ ~StartsWith(upper, "ASK")
           /\ ~StartsWith(upper, "CONSTRUCT")

\* Lines 1137-1151: placeholder substitution from the resolved URIs.
SubstitutePlaceholders(query, uris) ==
    CHOOSE q2 \in
        {IF Len(uris) > 1
         THEN Replace(Replace(q1, "{{TARGET_URI}}", UriRef(uris[2])),
                      "<TARGET_URI>", UriRef(uris[2]))
         ELSE q1 :
           q1 \in {IF Len(uris) > 0
                   THEN Replace(Replace(query, "{{SOURCE_URI}}", UriRef(uris[1])),
                                "<SOURCE_URI>", UriRef(uris[1]))
                   ELSE query}} : TRUE

\* Lines 1171-1172 with the guard dropped: an empty text is kept.
EmptyQueryGuard_Dropped(query) == query

\* Lines 1171-1172: the last-resort diagnostic query.
EmptyQueryGuard(query) ==
    IF Strip(query) = <<>> THEN DiagnosticQuery ELSE query

\* Lines 1153-1157: a CONSTRUCT-only text gives way to the fallback query.
ConstructOnlyFallback(query, uris, scenario) ==
    IF /\ Contains(Upper(query), "CONSTRUCT")
       /\ ~Contains(Upper(query), "SELECT")
       /\ BuildFallbackSparql(scenario, uris) # <<>>
    THEN BuildFallbackSparql(scenario, uris)
    ELSE query

\* Lines 1159-1169: the scenario's template replaces a text that needs one.
ApplyTemplate(query, uris, scenario) ==
    IF ShouldApplyTemplate(query) /\ ScenarioTemplate(scenario, uris) # <<>>
    THEN ScenarioTemplate(scenario, uris)
    ELSE query

PrepareSparqlPayload(query, uris, scenario) ==
    CHOOSE q4 \in
        {EmptyQueryGuard(q3) :
           q3 \in {ApplyTemplate(q2, uris, scenario) :
              q2 \in {ConstructOnlyFallback(q1, uris, scenario) :
                 q1 \in {SubstitutePlaceholders(query, uris)}}}} : TRUE

(***************************************************************************)
(* The oracle's answer to a repair request, and what                       *)
(* _regenerate_sparql_query makes of it.                                   *)
(***************************************************************************)
FenceOpen == "[fence sparql]"
FenceClose == "[fence]"
NoMatch == <<"[no match]">>
OracleRaises == <<"[raises]">>

RepairAnswers ==
    { <<"SELECT", "?x", "WHERE", "{", "?x", "?p", "?o", "}">>,
      <<"Here", "it", "is", FenceOpen, WS, "select", "?z", WS, FenceClose>>,
      <<"SELECT", "?s", "{{CONCEPT_URI}}">>,
      <<"PREFIX", "rdfs:", "SELECT", "?x">>,
      <<"I", "cannot", "fix", "this">>,
      <<>>,
      OracleRaises }

\* Lines 1712-1714: the text between the first opening sparql fence and the
\* next closing fence, stripped; NoMatch if there is none.
RECURSIVE UpTo(_, _)
UpTo(q, t) ==
    IF q = <<>> \/ Head(q) = t THEN <<>> ELSE <<Head(q)>> \o UpTo(Tail(q), t)

RECURSIVE After(_, _)
After(q, t) ==
    IF q = <<>> THEN <<>>
    ELSE IF Head(q) = t THEN Tail(q) ELSE After(Tail(q), t)

FencedBlock(content) ==
    LET rest == After(content, FenceOpen)
    IN  IF Contains(content, FenceOpen) /\ Contains(rest, FenceClose)
        THEN Strip(UpTo(rest, FenceClose))
        ELSE NoMatch

\* The repaired query, or <<>> for None.
RegenerateSparqlQuery(answer) ==
    IF answer = OracleRaises THEN <<>>
    ELSE CHOOSE result \in
            {IF StartsWith(Upper(content), "SELECT") THEN content ELSE <<>> :
               content \in {IF block # NoMatch THEN block ELSE Strip(answer) :
                  block \in {FencedBlock(stripped) :
                     stripped \in {Strip(answer)}}}} : TRUE

(***************************************************************************)
(* The plan's query texts for a query-execution step.                      *)
(***************************************************************************)
PlanQueries ==
    { <<>>,
      <<WS, WS>>,
      <<"SELECT", "?s", "WHERE", "{", "{{SOURCE_URI}}", "?p", "{{TARGET_URI}}", "}">>,
      <<"SELECT", "?o", "WHERE", "{", "<SOURCE_URI>", "?p", "?o", "}">>,
      <<"CONSTRUCT", "{", "?s", "?p", "?o", "}", "WHERE", "{", "?s", "?p", "?o", "}">>,
      <<"select", "?s", "WHERE", "{", "?s", "?p", "?o", "}">>,
      <<WS, "ASK", "{", "?s", "?p", "?o", "}">>,
      <<"DESCRIBE", "?s">>,
      <<"__USE_TEMPLATE__">> }

(***************************************************************************)
(* Exceptions call_mcp_tool can raise (lines 159-170).                     *)
(***************************************************************************)
CallErrors ==
    {"HTTPStatusError", "TimeoutException", "ConnectError", "JSONDecodeError"}

\* Line 330 widened: a timeout is handled like a rejected query.
IsRecoverable_WithTimeout(kind) ==
    kind \in {"HTTPStatusError", "TimeoutException"}

\* Line 330: except httpx.HTTPStatusError.
IsRecoverable(kind) == kind = "HTTPStatusError"

\* Line 333 off by one.
RegenAllowed_OffByOne(n) == n <= RegenBound

\* Line 333: if regen_attempts < 7.
RegenAllowed(n) == n < RegenBound

\* Line 350 dropped: the counter is not incremented by an accepted repair.
RegenCounterAfterRepair_NotIncremented(n) == n

\* Line 350: regen_attempts += 1.
RegenCounterAfterRepair(n) == n + 1

\* Line 373 dropped: the flag is not set by the fallback substitution.
FallbackFlagAfterSubstitution_NotSet == FALSE

\* Line 373: fallback_attempted = True.
FallbackFlagAfterSubstitution == TRUE

(***************************************************************************)
(* State.                                                                  *)
(***************************************************************************)
VARIABLES
    pc,                 \* position of execute_scenario
    step,               \* index of the current plan step
    scenario_id,
    concept_uris,       \* context["concept_uris"]
    plan_blank,         \* the plan gave the step no query text (or a blank one)
    payload_query,      \* payload["query"]
    fallback_attempted,
    regen_attempts,
    error,              \* the exception the last call raised in this step
    repair,             \* what _regenerate_sparql_query returned last
    sent,               \* the query text of the last call of this step
    exec_count,         \* calls to the service in this step
    regen_total,        \* accepted repairs in this step
    oracle_calls,       \* repair requests to the oracle in this step
    fallback_count,     \* fallback substitutions in this step
    nodes,              \* results["nodes"]
    links,              \* results["links"]
    gpc,                \* what the accumulator did last
    concept_nodes,      \* nodes appended by concept-search steps
    merges,             \* merges of new rows made so far
    last_rows,          \* the rows of the last merge
    once_nodes,         \* results["nodes"] before the rows were merged again
    once_links,         \* results["links"] before the rows were merged again
    rpc,                \* position of _select_best_concept
    candidates,         \* the concepts handed to _select_best_concept
    oracle_answer,      \* what the oracle did when asked to choose
    oracle_asked,       \* _choose_best_concept_with_llm invoked the oracle
    selected_idx,       \* position in candidates of the concept returned
    selected,           \* the concept returned, <<>> for None
    trace,              \* AgentLogger.steps
    clock,              \* what datetime.now() returns
    last_op,            \* the recorder operation called last
    returned,           \* what that operation returned
    fpc,                \* position of the request in detection and execution
    detect_answer,      \* what the oracle did when asked for the scenario
    detected,           \* what detect_scenario returned
    plan,               \* the steps of the execution plan still to run
    ran_query,          \* a query step has run (sparql_results is bound)
    have_rows,          \* context["last_sparql_results"] is not empty
    payload_results,    \* payload["sparql_results"] of the interpretation step
    interp_asked,       \* oracle calls made to interpret results
    step_from,          \* length of the trace when the current step began
    summary,            \* results["summary"]
    raised,             \* the exception raised to the caller
    result,             \* what execute_scenario returned
    demo_id,            \* the demo_id argument of execute_scenario
    scenarios,          \* self.scenarios: the ids of the scenario table
    contexts,           \* the context dicts of the requests being served
    req,                \* the requests being served on the executor
    in_flight,          \* external calls issued and not yet answered
    subscribers,        \* StatusBroadcaster._subscribers: the queues subscribed
    queues,             \* the queues created by subscribe, with what was put
    loop_calls,         \* callbacks scheduled on the event loop, not yet run
    due,                \* per queue, the messages published while it subscribed
    published           \* number of publish calls made

loopVars ==
    <<pc, step, scenario_id, plan_blank, payload_query, fallback_attempted,
      regen_attempts, error, repair, sent, exec_count, regen_total,
      oracle_calls, fallback_count>>

graphVars ==
    <<nodes, links, gpc, concept_nodes, merges, last_rows, once_nodes,
      once_links>>

resolverVars ==
    <<rpc, candidates, oracle_answer, oracle_asked, selected_idx, selected>>

loggerVars == <<trace, clock, last_op, returned>>

flowVars ==
    <<fpc, detect_answer, detected, plan, ran_query, have_rows,
      payload_results, interp_asked, step_from, summary, raised, result,
      demo_id>>

reqVars == <<scenarios, contexts, req, in_flight>>

bcVars == <<subscribers, queues, loop_calls, due, published>>

extVars == <<resolverVars, loggerVars, flowVars, reqVars, bcVars>>

vars == <<loopVars, concept_uris, graphVars, extVars>>

\* _select_best_concept has not been called.
ResolverIdle ==
    /\ rpc = "idle"
    /\ candidates = <<>>
    /\ oracle_answer = <<>>
    /\ oracle_asked = FALSE
    /\ selected_idx = 0
    /\ selected = <<>>

\* AgentLogger.__init__ (lines 47-50): no step recorded.
LoggerIdle ==
    /\ trace = <<>>
    /\ clock = 0
    /\ last_op = "init"
    /\ returned = <<>>

\* No request is being served.
FlowIdle ==
    /\ fpc = "idle"
    /\ detect_answer = <<"[not asked]">>
    /\ detected = ""
    /\ plan = <<>>
    /\ ran_query = FALSE
    /\ have_rows = FALSE
    /\ payload_results = <<>>
    /\ interp_asked = 0
    /\ step_from = 0
    /\ summary = ""
    /\ raised = "none"
    /\ result = "pending"
    /\ demo_id = ""

\* The executor after construction (lines 42-47), serving no request.
RequestsIdle ==
    /\ scenarios = ScenarioIds
    /\ contexts = <<>>
    /\ req = <<>>
    /\ in_flight = {}

\* status_stream.py line 40, lines 12-13: the broadcaster after construction.
BroadcasterIdle ==
    /\ subscribers = {}
    /\ queues = <<>>
    /\ loop_calls = <<>>
    /\ due = <<>>
    /\ published = 0

ExtIdle ==
    ResolverIdle /\ LoggerIdle /\ FlowIdle /\ RequestsIdle /\ BroadcasterIdle

Bump(n) == IF n < CountCap THEN n + 1 ELSE n

Init ==
    /\ pc = "plan"
    /\ step = 0
    /\ scenario_id \in ScenarioIds
    /\ concept_uris \in UriLists
    /\ plan_blank = TRUE
    /\ payload_query = <<>>
    /\ fallback_attempted = FALSE
    /\ regen_attempts = 0
    /\ error = "none"
    /\ repair = <<>>
    /\ sent = <<>>
    /\ exec_count = 0
    /\ regen_total = 0
    /\ oracle_calls = 0
    /\ fallback_count = 0
    /\ nodes = <<>>
    /\ links = <<>>
    /\ gpc = "ready"
    /\ concept_nodes = 0
    /\ merges = 0
    /\ last_rows = <<>>
    /\ once_nodes = <<>>
    /\ once_links = <<>>
    /\ ExtIdle

\* Lines 276-295: the next plan step is a query-execution step.
BeginStep(q) ==
    /\ pc = "plan"
    /\ step < MaxSteps
    /\ step' = step + 1
    /\ plan_blank' = (Strip(q) = <<>>)
    /\ payload_query' = q
    /\ fallback_attempted' = FALSE
    /\ regen_attempts' = 0
    /\ error' = "none"
    /\ repair' = <<>>
    /\ exec_count' = 0
    /\ regen_total' = 0
    /\ oracle_calls' = 0
    /\ fallback_count' = 0
    /\ sent' = <<>>
    /\ pc' = "try"
    /\ UNCHANGED <<extVars, graphVars, scenario_id, concept_uris>>

\* Lines 297-328: the payload is prepared and sent; the service answers 2xx.
ExecuteOk ==
    /\ pc = "try"
    /\ LET q == PrepareSparqlPayload(payload_query, concept_uris, scenario_id)
       IN  /\ payload_query' = q
           /\ sent' = q
    /\ exec_count' = Bump(exec_count)
    /\ pc' = "plan"
    /\ UNCHANGED <<extVars, graphVars, step, scenario_id, concept_uris, plan_blank,
                   fallback_attempted, regen_attempts, error, repair,
                   regen_total, oracle_calls, fallback_count>>

\* Lines 297-330, 473-489: the payload is prepared and sent; the call raises.
ExecuteRaises(kind) ==
    /\ pc = "try"
    /\ LET q == PrepareSparqlPayload(payload_query, concept_uris, scenario_id)
       IN  /\ payload_query' = q
           /\ sent' = q
    /\ exec_count' = Bump(exec_count)
    /\ error' = kind
    /\ pc' = IF IsRecoverable(kind) THEN "except"
             ELSE IF kind = "JSONDecodeError" THEN "default_flow"
             ELSE "failed"
    /\ UNCHANGED <<extVars, graphVars, step, scenario_id, concept_uris, plan_blank,
                   fallback_attempted, regen_attempts, repair, regen_total,
                   oracle_calls, fallback_count>>

\* Lines 333-358: the oracle repairs the query; the loop continues.
RetryRegenerate(answer) ==
    /\ pc = "except"
    /\ RegenAllowed(regen_attempts)
    /\ RegenerateSparqlQuery(answer) # <<>>
    /\ repair' = RegenerateSparqlQuery(answer)
    /\ payload_query' = RegenerateSparqlQuery(answer)
    /\ regen_attempts' = RegenCounterAfterRepair(regen_attempts)
    /\ regen_total' = Bump(regen_total)
    /\ oracle_calls' = Bump(oracle_calls)
    /\ pc' = "try"
    /\ UNCHANGED <<extVars, graphVars, step, scenario_id, concept_uris, plan_blank,
                   fallback_attempted, error, sent, exec_count, fallback_count>>

\* What the handler's regeneration stage leaves when it does not continue.
NoRepair(answer) ==
    /\ RegenAllowed(regen_attempts) => RegenerateSparqlQuery(answer) = <<>>
    /\ repair' = <<>>
    /\ oracle_calls' =
          IF RegenAllowed(regen_attempts) THEN Bump(oracle_calls) ELSE oracle_calls

\* Lines 333-375: no repair; the fallback query is substituted, once.
RetryFallback(answer) ==
    /\ pc = "except"
    /\ NoRepair(answer)
    /\ ~fallback_attempted
    /\ BuildFallbackSparql(scenario_id, concept_uris) # <<>>
    /\ payload_query' = BuildFallbackSparql(scenario_id, concept_uris)
    /\ fallback_attempted' = FallbackFlagAfterSubstitution
    /\ regen_attempts' = 0
    /\ fallback_count' = Bump(fallback_count)
    /\ pc' = "try"
    /\ UNCHANGED <<extVars, graphVars, step, scenario_id, concept_uris, plan_blank, error, sent,
                   exec_count, regen_total>>

\* Lines 333-376, 478-489: neither stage continues; the exception is re-raised.
Reraise(answer) ==
    /\ pc = "except"
    /\ NoRepair(answer)
    /\ fallback_attempted \/ BuildFallbackSparql(scenario_id, concept_uris) = <<>>
    /\ pc' = "failed"
    /\ UNCHANGED <<extVars, graphVars, step, scenario_id, concept_uris, plan_blank, payload_query,
                   fallback_attempted, regen_attempts, error, sent, exec_count,
                   regen_total, fallback_count>>

Next ==
    \/ \E q \in PlanQueries : BeginStep(q)
    \/ ExecuteOk
    \/ \E kind \in CallErrors : ExecuteRaises(kind)
    \/ \E answer \in RepairAnswers : RetryRegenerate(answer)
    \/ \E answer \in RepairAnswers : RetryFallback(answer)
    \/ \E answer \in RepairAnswers : Reraise(answer)

Spec == Init /\ [][Next]_vars

FairSpec == Spec /\ WF_vars(Next)

(***************************************************************************)
(* The graph accumulator (_merge_graph_results).  A row is a record whose  *)
(* fields are the columns the query returned; a node is a record           *)
(* [id, label, type], a link a record [source, target, relation].          *)
(***************************************************************************)
MaxMerges == 2
MaxConceptNodes == 2

UriC == <<"http:", "/", "/", "example.org", "/", "hearing", "/", "Tinnitus">>
UriLabel ==
    <<"http:", "/", "/", "www.w3.org", "/", "2000", "/", "01", "/",
      "rdf-schema", "#", "label">>
UriCommon == <<"http:", "/", "/", "example.org", "/", "common", "/">>
RelCauses == <<"http:", "/", "/", "example.org", "/", "hearing", "/", "managedBy">>
RelTreats == <<"http:", "/", "/", "example.org", "/", "hearing", "/", "hasTreatment">>

\* row.get(col): None is the empty text.
Get(row, col) == IF col \in DOMAIN row THEN row[col] ELSE <<>>

\* a or b or c or ...: the first truthy operand, else the last one.
RECURSIVE FirstTruthy(_)
FirstTruthy(xs) ==
    IF Len(xs) = 1 \/ Head(xs) # <<>> THEN Head(xs) ELSE FirstTruthy(Tail(xs))

\* The position of the last occurrence of token t in u, 0 if there is none.
LastIndexOf(u, t) ==
    IF Contains(u, t) THEN CHOOSE i \in 1..Len(u) :
                               u[i] = t /\ \A j \in (i + 1)..Len(u) : u[j] # t
    ELSE 0

\* uri.rsplit(separator, 1)[-1]
AfterLast(u, t) == SubSeq(u, LastIndexOf(u, t) + 1, Len(u))

InferLabel(uri) ==
    IF uri = <<>> THEN <<"Unknown">>
    ELSE IF Contains(uri, "#") /\ AfterLast(uri, "#") # <<>>
    THEN AfterLast(uri, "#")
    ELSE IF Contains(uri, "/") /\ AfterLast(uri, "/") # <<>>
    THEN AfterLast(uri, "/")
    ELSE uri

\* node_index[uri]: the last node of the list with that id, 0 if none.
NodeIndex(ns, uri) ==
    IF \E i \in 1..Len(ns) : ns[i].id = uri
    THEN CHOOSE i \in 1..Len(ns) :
             ns[i].id = uri /\ \A j \in (i + 1)..Len(ns) : ns[j].id # uri
    ELSE 0

\* Lines 1477-1478 without the test that the present label is empty.
EnsureNode_Overwrites(ns, uri, label) ==
    IF uri = <<>> THEN ns
    ELSE IF NodeIndex(ns, uri) = 0
    THEN Append(ns, [id |-> uri,
                     label |-> IF label # <<>> THEN label ELSE InferLabel(uri),
                     type |-> "concept"])
    ELSE IF label # <<>>
    THEN [ns EXCEPT ![NodeIndex(ns, uri)].label = label]
    ELSE ns

\* Lines 1470-1478 without the append of a missing node.
EnsureNode_NeverAppends(ns, uri, label) == ns

EnsureNode(ns, uri, label) ==
    IF uri = <<>> THEN ns
    ELSE IF NodeIndex(ns, uri) = 0
    THEN Append(ns, [id |-> uri,
                     label |-> IF label # <<>> THEN label ELSE InferLabel(uri),
                     type |-> "concept"])
    ELSE IF label # <<>> /\ ns[NodeIndex(ns, uri)].label = <<>>
    THEN [ns EXCEPT ![NodeIndex(ns, uri)].label = label]
    ELSE ns

LinkKey(l) == <<l.source, l.target, l.relation>>

\* Lines 1506, 1511, 1517 without the membership test.
LinkIsNew_Always(ls, src, tgt, rel) == TRUE

\* Lines 1506, 1511, 1517: key not in link_set.
LinkIsNew(ls, src, tgt, rel) ==
    \A i \in 1..Len(ls) : LinkKey(ls[i]) # <<src, tgt, rel>>

AddLink(ls, src, tgt, rel) ==
    IF LinkIsNew(ls, src, tgt, rel)
    THEN Append(ls, [source |-> src, target |-> tgt, relation |-> rel])
    ELSE ls

\* Lines 1482-1519: one iteration of the loop over the rows.
MergeRow(g, row, uris) ==
    LET source_default == IF Len(uris) > 0 THEN uris[1] ELSE <<>>
        target_default == IF Len(uris) > 1 THEN uris[2] ELSE <<>>
        source_uri == FirstTruthy(<<Get(row, "source"), Get(row, "subject"),
                                    Get(row, "s"), source_default>>)
        target_uri == FirstTruthy(<<Get(row, "target"), Get(row, "object"),
                                    Get(row, "o"), target_default>>)
        relation == FirstTruthy(<<Get(row, "relation"), Get(row, "predicate"),
                                  Get(row, "p")>>)
        intermediate == FirstTruthy(<<Get(row, "intermediate"),
                                      Get(row, "inter1"),
                                      Get(row, "intermediateNode")>>)
        intermediate_label == FirstTruthy(<<Get(row, "intermediateLabel"),
                                            Get(row, "inter1Label"),
                                            Get(row, "intermediate_nodeLabel")>>)
        rel1 == FirstTruthy(<<Get(row, "relation1"), Get(row, "r1")>>)
        rel2 == FirstTruthy(<<Get(row, "relation2"), Get(row, "r2"),
                              Get(row, "relation3"), Get(row, "r3")>>)
        n1 == EnsureNode(g.nodes, source_uri, Get(row, "sourceLabel"))
        n2 == EnsureNode(n1, target_uri, Get(row, "targetLabel"))
    IN  IF intermediate # <<>>
        THEN LET l1 == IF source_uri # <<>> /\ rel1 # <<>>
                       THEN AddLink(g.links, source_uri, intermediate, rel1)
                       ELSE g.links
                 l2 == IF target_uri # <<>> /\ rel2 # <<>>
                       THEN AddLink(l1, intermediate, target_uri, rel2)
                       ELSE l1
             IN  [nodes |-> EnsureNode(n2, intermediate, intermediate_label),
                  links |-> l2]
        ELSE [nodes |-> n2,
              links |-> IF source_uri # <<>> /\ target_uri # <<>> /\ relation # <<>>
                        THEN AddLink(g.links, source_uri, target_uri, relation)
                        ELSE g.links]

RECURSIVE MergeGraphResults(_, _, _)
MergeGraphResults(g, rows, uris) ==
    IF rows = <<>> THEN g
    ELSE MergeGraphResults(MergeRow(g, Head(rows), uris), Tail(rows), uris)

\* Lines 1482-1498: the endpoints a row names and the labels it gives them.
SourceUri(row, uris) ==
    FirstTruthy(<<Get(row, "source"), Get(row, "subject"), Get(row, "s"),
                  IF Len(uris) > 0 THEN uris[1] ELSE <<>> >>)

TargetUri(row, uris) ==
    FirstTruthy(<<Get(row, "target"), Get(row, "object"), Get(row, "o"),
                  IF Len(uris) > 1 THEN uris[2] ELSE <<>> >>)

IntermediateUri(row) ==
    FirstTruthy(<<Get(row, "intermediate"), Get(row, "inter1"),
                  Get(row, "intermediateNode")>>)

\* The labels the rows give to the node uri (lines 1486, 1487, 1503).
RowLabels(rows, uri, uris) ==
    { Get(rows[i], "sourceLabel") :
          i \in {k \in 1..Len(rows) : SourceUri(rows[k], uris) = uri} }
    \cup { Get(rows[i], "targetLabel") :
          i \in {k \in 1..Len(rows) : TargetUri(rows[k], uris) = uri} }
    \cup { FirstTruthy(<<Get(rows[i], "intermediateLabel"),
                         Get(rows[i], "inter1Label"),
                         Get(rows[i], "intermediate_nodeLabel")>>) :
          i \in {k \in 1..Len(rows) : IntermediateUri(rows[k]) = uri} }

\* Rows of the shapes the queries of the engine return.
RowPlain == [source |-> UriA, relation |-> RelCauses, target |-> UriB]

RowLabelled ==
    [source |-> UriA, relation |-> RelCauses, target |-> UriB,
     sourceLabel |-> <<"Chronic", "stress">>, targetLabel |-> <<"Hearing", "loss">>]

RowRelabelled == [source |-> UriA, sourceLabel |-> <<"Stress">>]

RowAliases == [s |-> UriCommon, predicate |-> RelTreats, o |-> UriLabel]

RowTwoHop ==
    [intermediate |-> UriC, relation1 |-> RelCauses, relation2 |-> RelTreats,
     intermediateLabel |-> <<"Tinnitus">>]

RowTemplatePath ==
    [source |-> UriA, relation1 |-> RelCauses, intermediate1 |-> UriC,
     relation2 |-> RelTreats, intermediate2 |-> <<>>, relation3 |-> <<>>,
     target |-> UriB, label1 |-> <<"Tinnitus">>, label2 |-> <<>>]

\* A three-hop solution under the column names the merge reads.
RowThreeHop ==
    [source |-> UriA, relation1 |-> RelCauses, intermediate |-> UriC,
     relation2 |-> RelTreats, intermediate2 |-> UriCommon,
     relation3 |-> RelCauses, target |-> UriB]

\* The row lists merged: tool_result["results"] of a query step.
RowSets ==
    { <<>>,
      <<RowPlain>>,
      <<RowPlain, RowPlain>>,
      <<RowPlain, RowLabelled>>,
      <<RowLabelled, RowPlain>>,
      <<RowRelabelled>>,
      <<RowAliases>>,
      <<RowTwoHop>>,
      <<RowTemplatePath>>,
      <<RowThreeHop>>,
      <<RowAliases, RowTwoHop, RowLabelled>> }

\* Candidates of the concept-similarity service: uri and label.
ConceptPool ==
    { [uri |-> UriA, label |-> <<"Chronic", "Stress">>],
      [uri |-> UriA, label |-> <<>>] }

GraphInit ==
    /\ pc = "graph"
    /\ step = 0
    /\ scenario_id = "scenario_2_multihop"
    /\ concept_uris \in {l \in UriLists : l # <<>> => l[1] = UriA}
    /\ plan_blank = TRUE
    /\ payload_query = <<>>
    /\ fallback_attempted = FALSE
    /\ regen_attempts = 0
    /\ error = "none"
    /\ repair = <<>>
    /\ sent = <<>>
    /\ exec_count = 0
    /\ regen_total = 0
    /\ oracle_calls = 0
    /\ fallback_count = 0
    /\ nodes = <<>>
    /\ links = <<>>
    /\ gpc = "ready"
    /\ concept_nodes = 0
    /\ merges = 0
    /\ last_rows = <<>>
    /\ once_nodes = <<>>
    /\ once_links = <<>>
    /\ ExtIdle

\* Lines 412-418: a concept-search step appends a candidate as a node.
AppendConceptNode(c) ==
    /\ concept_nodes < MaxConceptNodes
    /\ concept_nodes' = concept_nodes + 1
    /\ nodes' = Append(nodes, [id |-> c.uri, label |-> c.label, type |-> "concept"])
    /\ gpc' = "ready"
    /\ once_nodes' = <<>>
    /\ once_links' = <<>>
    /\ UNCHANGED <<extVars, loopVars, concept_uris, links, merges, last_rows>>

\* Lines 429-430, 1442-1519: the rows of a query result are merged.
MergeResults(rows) ==
    /\ merges < MaxMerges
    /\ merges' = merges + 1
    /\ LET g == MergeGraphResults([nodes |-> nodes, links |-> links], rows,
                                  concept_uris)
       IN  /\ nodes' = g.nodes
           /\ links' = g.links
    /\ last_rows' = rows
    /\ gpc' = "merged"
    /\ once_nodes' = <<>>
    /\ once_links' = <<>>
    /\ UNCHANGED <<extVars, loopVars, concept_uris, concept_nodes>>

\* Lines 429-430, 1442-1519: the rows just merged are merged once more.
MergeSameResultsAgain ==
    /\ gpc = "merged"
    /\ LET g == MergeGraphResults([nodes |-> nodes, links |-> links], last_rows,
                                  concept_uris)
       IN  /\ nodes' = g.nodes
           /\ links' = g.links
    /\ once_nodes' = nodes
    /\ once_links' = links
    /\ gpc' = "remerged"
    /\ UNCHANGED <<extVars, loopVars, concept_uris, concept_nodes, merges, last_rows>>

GraphNext ==
    \/ \E c \in ConceptPool : AppendConceptNode(c)
    \/ \E rows \in RowSets : MergeResults(rows)
    \/ MergeSameResultsAgain

GraphSpec == GraphInit /\ [][GraphNext]_vars

\* The parts of the state a component leaves alone when another one runs.
LoopUnused ==
    /\ step = 0
    /\ scenario_id = "scenario_2_multihop"
    /\ concept_uris = <<>>
    /\ plan_blank = TRUE
    /\ payload_query = <<>>
    /\ fallback_attempted = FALSE
    /\ regen_attempts = 0
    /\ error = "none"
    /\ repair = <<>>
    /\ sent = <<>>
    /\ exec_count = 0
    /\ regen_total = 0
    /\ oracle_calls = 0
    /\ fallback_count = 0

GraphUnused ==
    /\ nodes = <<>>
    /\ links = <<>>
    /\ gpc = "ready"
    /\ concept_nodes = 0
    /\ merges = 0
    /\ last_rows = <<>>
    /\ once_nodes = <<>>
    /\ once_links = <<>>

(***************************************************************************)
(* A query-execution step of the multi-hop scenario whose rows are merged  *)
(* (lines 296-376 and 421-430).  The execution service (api/mcp.py,        *)
(* execute_sparql) answers with one dict per solution, keyed by the        *)
(* variables of the query's SELECT clause.  The graph queried holds the    *)
(* two-hop path UriA -RelCauses-> UriC -RelTreats-> UriB.                  *)
(***************************************************************************)
\* The header the CSV gives a variable of the SELECT clause; <<>> if the
\* token is not a variable.
ColumnName(tok) ==
    CASE tok = "?source" -> "source"
      [] tok = "?target" -> "target"
      [] tok = "?intermediate" -> "intermediate"
      [] tok = "?intermediate1" -> "intermediate1"
      [] tok = "?intermediate2" -> "intermediate2"
      [] tok = "?relation1" -> "relation1"
      [] tok = "?relation2" -> "relation2"
      [] tok = "?relation3" -> "relation3"
      [] tok = "?intermediateLabel" -> "intermediateLabel"
      [] tok = "?s" -> "s"
      [] tok = "?p" -> "p"
      [] tok = "?o" -> "o"
      [] tok = "?x" -> "x"
      [] tok = "?z" -> "z"
      [] OTHER -> ""

\* The value the solution binds to a column; "" where the template binds "".
Binding(col) ==
    CASE col \in {"source", "s", "x", "z"} -> UriA
      [] col = "target" -> UriB
      [] col \in {"intermediate", "intermediate1", "o"} -> UriC
      [] col \in {"relation1", "p"} -> RelCauses
      [] col = "relation2" -> RelTreats
      [] col = "intermediateLabel" -> <<"Tinnitus">>
      [] OTHER -> <<>>

\* The end of the SELECT clause: the first WHERE or opening brace.
BodyIndex(q) ==
    IF \E i \in 1..Len(q) : q[i] \in {"WHERE", "{"}
    THEN CHOOSE i \in 1..Len(q) :
             q[i] \in {"WHERE", "{"} /\ \A j \in 1..(i - 1) : q[j] \notin {"WHERE", "{"}
    ELSE Len(q) + 1

\* api/mcp.py lines 170-181: the row of the solution for the query q.
ProjectRow(q) ==
    [c \in {ColumnName(q[i]) : i \in 1..(BodyIndex(q) - 1)} \ {""} |-> Binding(c)]

\* Repairs of a path query: the columns the repair prompt names, and the
\* columns of the multi-hop template the failed query came from.
PathRepairAnswers ==
    RepairAnswers \cup
    { <<"SELECT", "?source", "?relation1", "?intermediate", "?relation2",
        "?target", "WHERE", "{", "2hop", "}", "LIMIT", "25">>,
      <<FenceOpen, WS, "SELECT", "?source", "?relation1", "?intermediate1",
        "?relation2", "?target", "WHERE", "{", "2hop", "}", WS, FenceClose>> }

PathInit ==
    /\ pc = "plan"
    /\ step = 0
    /\ scenario_id = "scenario_2_multihop"
    /\ concept_uris = <<UriA, UriB>>
    /\ plan_blank = TRUE
    /\ payload_query = <<>>
    /\ fallback_attempted = FALSE
    /\ regen_attempts = 0
    /\ error = "none"
    /\ repair = <<>>
    /\ sent = <<>>
    /\ exec_count = 0
    /\ regen_total = 0
    /\ oracle_calls = 0
    /\ fallback_count = 0
    /\ GraphUnused
    /\ ExtIdle

\* Lines 297-328, 421-430: the payload is prepared and sent, the service
\* answers 2xx with the solution's row (or with no row), the rows are merged.
ExecuteOkRows(found) ==
    /\ pc = "try"
    /\ LET q == PrepareSparqlPayload(payload_query, concept_uris, scenario_id)
           rows == IF found THEN <<ProjectRow(q)>> ELSE <<>>
           g == MergeGraphResults([nodes |-> nodes, links |-> links], rows,
                                  concept_uris)
       IN  /\ payload_query' = q
           /\ sent' = q
           /\ last_rows' = rows
           /\ nodes' = g.nodes
           /\ links' = g.links
           /\ merges' = IF found THEN merges + 1 ELSE merges
    /\ gpc' = "merged"
    /\ exec_count' = Bump(exec_count)
    /\ pc' = "plan"
    /\ UNCHANGED <<extVars, step, scenario_id, concept_uris, plan_blank,
                   fallback_attempted, regen_attempts, error, repair,
                   regen_total, oracle_calls, fallback_count, concept_nodes,
                   once_nodes, once_links>>

PathNext ==
    \/ \E q \in PlanQueries : BeginStep(q)
    \/ \E found \in BOOLEAN : ExecuteOkRows(found)
    \/ \E kind \in CallErrors : ExecuteRaises(kind)
    \/ \E answer \in PathRepairAnswers : RetryRegenerate(answer)
    \/ \E answer \in PathRepairAnswers : RetryFallback(answer)
    \/ \E answer \in PathRepairAnswers : Reraise(answer)

PathSpec == PathInit /\ [][PathNext]_vars

\* links holds a chain from src to tgt through at least one other node.
HasChain(ls, src, tgt) ==
    \E i, j \in 1..Len(ls) :
        /\ ls[i].source = src
        /\ ls[i].target = ls[j].source
        /\ ls[j].target = tgt
        /\ ls[i].target \notin {src, tgt, <<>>}

(***************************************************************************)
(* The concept resolver (_select_best_concept).  A candidate is a record   *)
(* [uri, label]; lists of candidates are handled through the positions of  *)
(* their members in the list the resolver was given.                       *)
(***************************************************************************)
MaxCandidates == 3
ShortlistSize == 5

\* str.startswith(prefix)
HasPrefix(u, p) == Len(u) >= Len(p) /\ SubSeq(u, 1, Len(p)) = p

BlacklistPrefixes ==
    { <<"http:", "/", "/", "www.w3.org", "/">>,
      <<"https:", "/", "/", "www.w3.org", "/">> }

PreferredPrefixes ==
    { <<"http:", "/", "/", "example.org", "/">>,
      <<"https:", "/", "/", "example.org", "/">> }

IsBlacklisted(uri) == \E p \in BlacklistPrefixes : HasPrefix(uri, p)

IsPreferred(uri) == \E p \in PreferredPrefixes : HasPrefix(uri, p)

\* prefix_map.get(prefix): the base URI, <<>> for None.
PrefixMap(prefix) ==
    CASE prefix = <<"exhear">> -> <<"http:", "/", "/", "example.org", "/", "hearing", "/">>
      [] prefix = <<"expsych">> ->
             <<"http:", "/", "/", "example.org", "/", "psychiatry", "/">>
      [] prefix = <<"exmed">> -> <<"http:", "/", "/", "example.org", "/", "medical", "/">>
      [] prefix = <<"excommon">> -> UriCommon
      [] OTHER -> <<>>

ExpandUri(uri) ==
    IF uri = <<>> THEN uri
    ELSE IF HasPrefix(uri, <<"http:", "/", "/">>) \/ HasPrefix(uri, <<"https:", "/", "/">>)
    THEN uri
    ELSE IF Contains(uri, ":") /\ PrefixMap(UpTo(uri, ":")) # <<>>
    THEN PrefixMap(UpTo(uri, ":")) \o After(uri, ":")
    ELSE uri

Positions(cs) == [i \in 1..Len(cs) |-> i]

\* Line 1584: the positions of the candidates outside the blacklist.
Filtered(cs) == SelectSeq(Positions(cs), LAMBDA i : ~IsBlacklisted(cs[i].uri))

\* Lines 1584-1586 without the blacklist filter.
Remaining_Unfiltered(cs) == Positions(cs)

\* Lines 1585-1586: the filtered list replaces the list unless it is empty.
Remaining(cs) == IF Filtered(cs) # <<>> THEN Filtered(cs) ELSE Positions(cs)

\* Line 1591.
Preferred(cs) == SelectSeq(Remaining(cs), LAMBDA i : IsPreferred(cs[i].uri))

\* Lines 1596-1597 without the narrowing to the preferred namespace.
Shortlisted_NoPreference(cs) == Remaining(cs)

\* Lines 1596-1597: the list handed to _choose_best_concept_with_llm.
Shortlisted(cs) == IF Preferred(cs) # <<>> THEN Preferred(cs) ELSE Remaining(cs)

\* Line 1613: concepts[:5]
TopK(ps) == SubSeq(ps, 1, IF Len(ps) < ShortlistSize THEN Len(ps) ELSE ShortlistSize)

\* Lines 1633-1655: the position of the candidate the oracle chose, 0 for
\* None.  The candidates of top_k had their URI expanded at line 1617, so
\* both texts compared at line 1640 are expanded forms.
ChooseBestConceptWithLlm(cs, ps, answer) ==
    LET top_k == TopK(ps)
        content == Strip(answer)
        hits == {k \in 1..Len(top_k) :
                    content \in {ExpandUri(ExpandUri(cs[top_k[k]].uri)),
                                 ExpandUri(cs[top_k[k]].uri)}}
    IN  IF answer = OracleRaises THEN 0
        ELSE IF content = <<>> \/ Upper(content) = <<"UNKNOWN">> THEN 0
        ELSE IF hits = {} THEN 0
        ELSE top_k[CHOOSE k \in hits : \A j \in hits : k <= j]

\* Lines 1592-1594 dropped: a single remaining candidate goes to the oracle.
OracleConsulted_Always(cs) == cs # <<>>

\* Whether _select_best_concept reaches line 1599.
OracleConsulted(cs) == cs # <<>> /\ Len(Remaining(cs)) # 1

\* Lines 1604-1605 dropped: None when the oracle settles nothing.
SelectBestConcept_NoneWhenUnsettled(cs, answer) ==
    IF cs = <<>> THEN 0
    ELSE IF Len(Remaining(cs)) = 1 THEN Remaining(cs)[1]
    ELSE ChooseBestConceptWithLlm(cs, Shortlisted(cs), answer)

\* Lines 1572-1605: the position of the concept returned, 0 for None.
SelectBestConcept(cs, answer) ==
    IF cs = <<>> THEN 0
    ELSE IF Len(Remaining(cs)) = 1 THEN Remaining(cs)[1]
    ELSE IF ChooseBestConceptWithLlm(cs, Shortlisted(cs), answer) # 0
    THEN ChooseBestConceptWithLlm(cs, Shortlisted(cs), answer)
    ELSE Shortlisted(cs)[1]

\* Candidates of the concept-similarity service.
UriOwlClass ==
    <<"https:", "/", "/", "www.w3.org", "/", "2002", "/", "07", "/", "owl", "#", "Class">>
UriSnomed == <<"http:", "/", "/", "snomed.info", "/", "id", "/", "15188001">>
UriPrefixed == <<"exhear", ":", "HearingLoss">>

CandidatePool ==
    { [uri |-> UriC, label |-> <<"Tinnitus">>],
      [uri |-> UriPrefixed, label |-> <<"Hearing", "Loss">>],
      [uri |-> UriLabel, label |-> <<"label">>],
      [uri |-> UriOwlClass, label |-> <<"Class">>],
      [uri |-> UriSnomed, label |-> <<"Hearing", "loss">>],
      [uri |-> <<>>, label |-> <<"Stress">>] }

\* A list longer than the shortlist, its last member beyond concepts[:5].
LongCandidates ==
    << [uri |-> UriLabel, label |-> <<"label">>],
       [uri |-> UriSnomed, label |-> <<"Hearing", "loss">>],
       [uri |-> <<>>, label |-> <<"Stress">>],
       [uri |-> UriSnomed, label |-> <<"Hearing", "loss">>],
       [uri |-> <<>>, label |-> <<"Stress">>],
       [uri |-> UriSnomed, label |-> <<"Hearing", "loss">>],
       [uri |-> UriPrefixed, label |-> <<"Hearing", "Loss">>] >>

CandidateLists ==
    UNION { [1..n -> CandidatePool] : n \in 0..MaxCandidates } \cup {LongCandidates}

\* What the oracle does when asked for the best URI.
ChoiceAnswers ==
    { OracleRaises, <<>>, <<WS>>, <<"UNKNOWN">>, <<"unknown", WS>>,
      <<"I", WS, "am", WS, "not", WS, "sure">>,
      UriC, <<WS>> \o UriB, UriPrefixed, UriSnomed, UriLabel, UriOwlClass }

ConceptInit ==
    /\ pc = "resolver"
    /\ RequestsIdle
    /\ BroadcasterIdle
    /\ LoopUnused
    /\ GraphUnused
    /\ LoggerIdle
    /\ FlowIdle
    /\ rpc = "called"
    /\ candidates \in CandidateLists
    /\ oracle_answer = <<>>
    /\ oracle_asked = FALSE
    /\ selected_idx = 0
    /\ selected = <<>>

\* Lines 1572-1573, 1592-1594: the resolver returns without the oracle.
SelectOutright ==
    /\ rpc = "called"
    /\ ~OracleConsulted(candidates)
    /\ rpc' = "returned"
    /\ selected_idx' = SelectBestConcept(candidates, <<>>)
    /\ selected' = IF selected_idx' = 0 THEN <<>>
                   ELSE [candidates[selected_idx'] EXCEPT !.uri = ExpandUri(@)]
    /\ UNCHANGED <<bcVars, reqVars, loopVars, concept_uris, graphVars, loggerVars, flowVars, candidates,
                   oracle_answer, oracle_asked>>

\* Lines 1596-1605: the oracle arbitrates between the shortlisted candidates.
SelectArbitrated(answer) ==
    /\ rpc = "called"
    /\ OracleConsulted(candidates)
    /\ rpc' = "returned"
    /\ oracle_asked' = TRUE
    /\ oracle_answer' = answer
    /\ selected_idx' = SelectBestConcept(candidates, answer)
    /\ selected' = IF selected_idx' = 0 THEN <<>>
                   ELSE [candidates[selected_idx'] EXCEPT !.uri = ExpandUri(@)]
    /\ UNCHANGED <<bcVars, reqVars, loopVars, concept_uris, graphVars, loggerVars, flowVars, candidates>>

ConceptNext ==
    \/ SelectOutright
    \/ \E answer \in ChoiceAnswers : SelectArbitrated(answer)

ConceptSpec == ConceptInit /\ [][ConceptNext]_vars

(***************************************************************************)
(* The execution trace recorder (agent_logger.py, AgentLogger).  A step is *)
(* a record [timestamp, step_type, message, status, details]; details is   *)
(* <<>> for the empty dict.                                                *)
(***************************************************************************)
MaxTrace == 2
MaxClock == 1

StepTypes ==
    {"scenario_detection", "entity_extraction", "concept_search",
     "neighbourhood_exploration", "sparql_query", "result_interpretation",
     "error", "success"}

StepStatuses == {"started", "in_progress", "completed", "failed"}

NoDetails == <<>>

\* Lines 52-89 with the new step put first.
LogStep_Prepends(steps, now, step_type, message, status, details) ==
    <<[timestamp |-> now, step_type |-> step_type, message |-> message,
       status |-> status, details |-> details]>> \o steps

\* Lines 52-89: log_step; the list of steps after the call.
LogStep(steps, now, step_type, message, status, details) ==
    Append(steps, [timestamp |-> now, step_type |-> step_type,
                   message |-> message, status |-> status, details |-> details])

\* Lines 91-93.
StartStep(steps, now, step_type, message) ==
    LogStep(steps, now, step_type, message, "started", NoDetails)

\* Lines 95-97.
CompleteStep(steps, now, step_type, message, details) ==
    LogStep(steps, now, step_type, message, "completed", details)

\* Lines 99-102: error is "" for None.
FailStep(steps, now, step_type, message, err) ==
    LogStep(steps, now, step_type, message, "failed",
            IF err # "" THEN <<"error", err>> ELSE NoDetails)

\* Lines 104-110.
LogScenarioDetection(steps, now, name) ==
    CompleteStep(steps, now, "scenario_detection", "Identified scenario",
                 <<"scenario", name>>)

\* Lines 112-119.
LogEntityExtraction(steps, now, count) ==
    CompleteStep(steps, now, "entity_extraction", "Extracted entities",
                 <<"count", count>>)

\* Lines 121-127.
LogConceptSearch(steps, now, count) ==
    CompleteStep(steps, now, "concept_search", "Found similar concepts",
                 <<"concepts_found", count>>)

\* Lines 129-135.
LogSparqlQuery(steps, now, count) ==
    CompleteStep(steps, now, "sparql_query", "Executed SPARQL query",
                 <<"results_count", count>>)

\* Lines 137-143.
LogInterpretation(steps, now, text) ==
    CompleteStep(steps, now, "result_interpretation",
                 "Generated natural language explanation", <<"summary", text>>)

\* Lines 145-147.
LogSuccess(steps, now, message) ==
    LogStep(steps, now, "success", message, "completed", NoDetails)

\* Lines 149-151.
LogError(steps, now, message, err) == FailStep(steps, now, "error", message, err)

\* Lines 157-170: get_summary (success_rate as the pair completed, total).
GetSummary(steps) ==
    [total_steps |-> Len(steps),
     completed |-> Cardinality({i \in 1..Len(steps) : steps[i].status = "completed"}),
     failed |-> Cardinality({i \in 1..Len(steps) : steps[i].status = "failed"}),
     steps |-> steps]

\* Lines 183-196: the icon of a step type.
Icon(step_type) ==
    CASE step_type = "scenario_detection" -> "[target]"
      [] step_type = "entity_extraction" -> "[memo]"
      [] step_type = "concept_search" -> "[magnifier]"
      [] step_type = "neighbourhood_exploration" -> "[globe]"
      [] step_type = "sparql_query" -> "[bolt]"
      [] step_type = "result_interpretation" -> "[speech]"
      [] step_type = "error" -> "[cross]"
      [] step_type = "success" -> "[check]"
      [] OTHER -> "[square]"

\* Lines 172-203: format_for_frontend.
FormatForFrontend(steps) ==
    [i \in 1..Len(steps) |->
        [message |-> <<Icon(steps[i].step_type), WS, steps[i].message>>,
         status |-> steps[i].status,
         timestamp |-> steps[i].timestamp]]

\* The step types and messages the recorder is driven with.
LoggedTypes == {"sparql_query", "result_interpretation", "error"}

LoggerInit ==
    /\ pc = "logger"
    /\ RequestsIdle
    /\ BroadcasterIdle
    /\ LoopUnused
    /\ GraphUnused
    /\ ResolverIdle
    /\ LoggerIdle
    /\ FlowIdle

LogStepCall(step_type, status) ==
    /\ Len(trace) < MaxTrace
    /\ trace' = LogStep(trace, clock, step_type, "message", status, NoDetails)
    /\ returned' = trace'[Len(trace')]
    /\ last_op' = "log_step"
    /\ UNCHANGED <<bcVars, reqVars, loopVars, concept_uris, graphVars, resolverVars, flowVars, clock>>

StartStepCall(step_type) ==
    /\ Len(trace) < MaxTrace
    /\ trace' = StartStep(trace, clock, step_type, "message")
    /\ returned' = trace'[Len(trace')]
    /\ last_op' = "start_step"
    /\ UNCHANGED <<bcVars, reqVars, loopVars, concept_uris, graphVars, resolverVars, flowVars, clock>>

CompleteStepCall(step_type) ==
    /\ Len(trace) < MaxTrace
    /\ trace' = CompleteStep(trace, clock, step_type, "message", NoDetails)
    /\ returned' = trace'[Len(trace')]
    /\ last_op' = "complete_step"
    /\ UNCHANGED <<bcVars, reqVars, loopVars, concept_uris, graphVars, resolverVars, flowVars, clock>>

FailStepCall(step_type, err) ==
    /\ Len(trace) < MaxTrace
    /\ trace' = FailStep(trace, clock, step_type, "message", err)
    /\ returned' = trace'[Len(trace')]
    /\ last_op' = "fail_step"
    /\ UNCHANGED <<bcVars, reqVars, loopVars, concept_uris, graphVars, resolverVars, flowVars, clock>>

\* Lines 153-155: get_trace returns the list itself.
GetTraceCall ==
    /\ returned' = trace
    /\ last_op' = "get_trace"
    /\ UNCHANGED <<bcVars, reqVars, loopVars, concept_uris, graphVars, resolverVars, flowVars, trace, clock>>

GetSummaryCall ==
    /\ returned' = GetSummary(trace)
    /\ last_op' = "get_summary"
    /\ UNCHANGED <<bcVars, reqVars, loopVars, concept_uris, graphVars, resolverVars, flowVars, trace, clock>>

FormatForFrontendCall ==
    /\ returned' = FormatForFrontend(trace)
    /\ last_op' = "format_for_frontend"
    /\ UNCHANGED <<bcVars, reqVars, loopVars, concept_uris, graphVars, resolverVars, flowVars, trace, clock>>

\* Time passes between two calls.
Tick ==
    /\ clock < MaxClock
    /\ clock' = clock + 1
    /\ UNCHANGED <<bcVars, reqVars, loopVars, concept_uris, graphVars, resolverVars, flowVars, trace,
                   last_op, returned>>

LoggerNext ==
    \/ \E t \in LoggedTypes, st \in StepStatuses : LogStepCall(t, st)
    \/ \E t \in LoggedTypes : StartStepCall(t)
    \/ \E t \in LoggedTypes : CompleteStepCall(t)
    \/ \E t \in LoggedTypes, err \in {"", "boom"} : FailStepCall(t, err)
    \/ GetTraceCall
    \/ GetSummaryCall
    \/ FormatForFrontendCall
    \/ Tick

LoggerSpec == LoggerInit /\ [][LoggerNext]_vars

(***************************************************************************)
(* A request: scenario detection (detect_scenario), the plan of the oracle *)
(* (execute_scenario, lines 255-266), the plan's query and interpretation  *)
(* steps, and the default flow (_execute_default_flow).  The resilience    *)
(* loop of a query step is the one of Spec; here a query step is its       *)
(* outcome: rows, no rows, or a failure of the service that the loop does  *)
(* not handle.                                                             *)
(***************************************************************************)
DefaultScenario == "scenario_1_neighbourhood"

NotAsked == <<"[not asked]">>

DetectAnswers ==
    { <<"scenario_2_multihop">>,
      <<WS, "scenario_4_validation", WS>>,
      <<"scenario_1_neighbourhood">>,
      <<"scenario_3_federation">>,
      <<"The", WS, "scenario", WS, "is", WS, "scenario_2_multihop">>,
      <<>>,
      OracleRaises }

\* Lines 124-138 without the membership test of line 129.
DetectedScenario_Unvalidated(answer) ==
    IF answer = OracleRaises \/ Strip(answer) = <<>> THEN DefaultScenario
    ELSE Strip(answer)[1]

\* Lines 124-138: what detect_scenario returns.
DetectedScenario(answer) ==
    IF answer = OracleRaises THEN DefaultScenario
    ELSE IF Len(Strip(answer)) = 1 /\ Strip(answer)[1] \in ScenarioIds
    THEN Strip(answer)[1]
    ELSE DefaultScenario

JsonFenceOpen == "[fence json]"

\* Lines 258-264: the text handed to json.loads.
PlanText(answer) ==
    LET plan_text == Strip(answer)
        rest == After(plan_text, JsonFenceOpen)
    IN  IF Contains(plan_text, JsonFenceOpen) /\ Contains(rest, FenceClose)
        THEN Strip(UpTo(rest, FenceClose))
        ELSE plan_text

\* Line 266: json.loads gives a list, an object, or raises JSONDecodeError.
JsonLoads(text) ==
    LET t == Strip(text)
    IN  IF t # <<>> /\ Head(t) = "[" /\ t[Len(t)] = "]" THEN "list"
        ELSE IF t # <<>> /\ Head(t) = "{" /\ t[Len(t)] = "}" THEN "object"
        ELSE "error"

\* The steps of a parsed plan, by the tool they call.
PlanSteps(text) == SelectSeq(text, LAMBDA t : t \in {"query", "interpret"})

PlanAnswers ==
    { OracleRaises,
      <<>>,
      <<"Here", WS, "is", WS, "the", WS, "plan">>,
      <<"{", "steps", "}">>,
      <<JsonFenceOpen, WS, "[", "query", "interpret", "]", WS, FenceClose>>,
      <<"[", "interpret", "]">>,
      <<"[", "query", "]">>,
      <<"[", "]">>,
      <<JsonFenceOpen, "[", "query", "]">> }

\* payload["sparql_results"] of an interpretation step.
PayloadResults == { <<>>, <<WS>>, <<"results", "of", "step", "3">> }

NoDataMessage == "Aucune donnee exploitable n'a ete renvoyee."
EmptySynthesisMessage == "Impossible de generer une synthese."
SynthesisErrorMessage == "Une erreur est survenue pendant la synthese."

\* Lines 1392-1398 with the payload's text ignored.
CsvContentBlank_RowsOnly(rows_present, text) == ~rows_present

\* Lines 1392-1398: csv_content is empty.
CsvContentBlank(rows_present, text) == ~rows_present /\ Strip(text) = <<>>

\* Lines 478-489: the outer handler of execute_scenario.
FailScenario(steps, now, had_query, err) ==
    LogError(IF had_query
             THEN LogStep(steps, now, "sparql_query",
                          "Last SPARQL query before failure", "failed",
                          <<"query_preview">>)
             ELSE steps,
             now, "Scenario execution failed", err)

\* Lines 478-489 with the text of context["last_sparql_query"] in the entry.
FailScenarioWithQuery(steps, now, last_query, err) ==
    LogError(IF last_query # <<>>
             THEN LogStep(steps, now, "sparql_query",
                          "Last SPARQL query before failure", "failed",
                          <<"query_preview", last_query>>)
             ELSE steps,
             now, "Scenario execution failed", err)

\* Lines 518, 556, 595, 635, 671: the demo identifiers the handler knows.
RecognizedDemoIds ==
    {"S1_PATIENT", "S2_PATHFINDING", "S3_VALIDATION", "AUTONOMOUS_DEMO",
     "DEEP_REASONING"}

\* The demo_id arguments: None, two known identifiers, an unknown one.
DemoInputs == {"", "S1_PATIENT", "DEEP_REASONING", "NOT_A_DEMO"}

\* Lines 500-501, 716 with every non-empty identifier taken for a demo.
DemoResponse_AnyId(id) == id # ""

\* Lines 500-716: _handle_demo_request returns a result (TRUE) or None.
DemoResponse(id) == id # "" /\ id \in RecognizedDemoIds

\* The scenario ids a caller can pass: those of the table and one that the
\* constructor removed from it (lines 44-47).
CallerScenarioIds == ScenarioIds \cup {"scenario_3_federation"}

FlowInit ==
    /\ pc = "flow"
    /\ RequestsIdle
    /\ BroadcasterIdle
    /\ LoopUnused
    /\ GraphUnused
    /\ ResolverIdle
    /\ LoggerIdle
    /\ fpc = "detect"
    /\ detect_answer = NotAsked
    /\ detected = ""
    /\ plan = <<>>
    /\ ran_query = FALSE
    /\ have_rows = FALSE
    /\ payload_results = <<>>
    /\ interp_asked = 0
    /\ step_from = 0
    /\ summary = ""
    /\ raised = "none"
    /\ result = "pending"
    /\ demo_id \in DemoInputs

\* Lines 98-138: detect_scenario.
Detect(answer) ==
    /\ fpc = "detect"
    /\ detect_answer' = answer
    /\ detected' = DetectedScenario(answer)
    /\ LET started == StartStep(trace, clock, "scenario_detection",
                                "Analyzing question to identify scenario...")
       IN  trace' = IF answer = OracleRaises
                    THEN LogError(started, clock, "Scenario detection failed",
                                  "oracle")
                    ELSE LogScenarioDetection(started, clock, detected')
    /\ fpc' = "plan"
    /\ UNCHANGED <<bcVars, reqVars, demo_id, loopVars, concept_uris, graphVars, resolverVars, clock,
                   last_op, returned, plan, ran_query, have_rows,
                   payload_results, interp_asked, step_from, summary, raised,
                   result>>

\* api/agent.py lines 99-104: the caller names the scenario; detection is
\* skipped.
ForceScenario(id) ==
    /\ fpc = "detect"
    /\ detected' = id
    /\ trace' = LogStep(trace, clock, "scenario_detection",
                        "Using provided scenario", "completed", NoDetails)
    /\ fpc' = "plan"
    /\ UNCHANGED <<bcVars, reqVars, demo_id, loopVars, concept_uris, graphVars, resolverVars, clock,
                   last_op, returned, detect_answer, plan, ran_query,
                   have_rows, payload_results, interp_asked, step_from,
                   summary, raised, result>>

\* Lines 206-213, 500-716: the demo shortcut returns the canned result.
DemoShortcut ==
    /\ fpc = "plan"
    /\ DemoResponse(demo_id)
    /\ trace' = LogSuccess(LogStep(trace, clock, "scenario_detection",
                                   "Demo selected", "completed",
                                   <<"demo_id", demo_id>>),
                           clock, "Demo completed")
    /\ fpc' = "returned"
    /\ result' = "demo_payload"
    /\ UNCHANGED <<bcVars, reqVars, demo_id, loopVars, concept_uris, graphVars, resolverVars, clock,
                   last_op, returned, detect_answer, detected, plan, ran_query,
                   have_rows, payload_results, interp_asked, step_from,
                   summary, raised>>

\* Lines 215-217: the scenario id is not in the table; ValueError is raised
\* outside the try block, the trace gets no entry.
UnknownScenario ==
    /\ fpc = "plan"
    /\ ~DemoResponse(demo_id)
    /\ detected \notin ScenarioIds
    /\ fpc' = "raised"
    /\ raised' = "ValueError"
    /\ UNCHANGED <<bcVars, reqVars, demo_id, loopVars, concept_uris, graphVars, resolverVars, loggerVars,
                   detect_answer, detected, plan, ran_query,
                   have_rows, payload_results, interp_asked, step_from,
                   summary, result>>

\* Lines 220-266, 473-489: the oracle is asked for the plan.
PlanCall(answer) ==
    /\ fpc = "plan"
    /\ ~DemoResponse(demo_id)
    /\ detected \in ScenarioIds
    /\ LET announced == LogStep(trace, clock, "scenario_detection",
                                "Executing scenario", "completed",
                                <<"scenario_id", detected>>)
           kind == IF answer = OracleRaises THEN "raises"
                   ELSE JsonLoads(PlanText(answer))
       IN  /\ trace' =
                CASE kind = "raises" ->
                       FailScenario(announced, clock, FALSE, "OracleError")
                  [] kind = "object" ->
                       FailScenario(announced, clock, FALSE, "TypeError")
                  [] kind = "error" ->
                       StartStep(LogError(announced, clock,
                                          "Failed to parse LLM execution plan",
                                          "JSONDecodeError"),
                                 clock, "concept_search",
                                 "Executing fallback flow...")
                  [] OTHER -> announced
           /\ fpc' = CASE kind \in {"raises", "object"} -> "raised"
                       [] kind = "error" -> "df_entities"
                       [] OTHER -> "steps"
           /\ raised' = CASE kind = "raises" -> "OracleError"
                          [] kind = "object" -> "TypeError"
                          [] OTHER -> "none"
           /\ plan' = IF kind = "list" THEN PlanSteps(PlanText(answer)) ELSE <<>>
    /\ UNCHANGED <<bcVars, reqVars, demo_id, loopVars, concept_uris, graphVars, resolverVars, clock,
                   last_op, returned, detect_answer, detected, ran_query,
                   have_rows, payload_results, interp_asked, step_from,
                   summary, result>>

\* Lines 276-330, 421-430, 478-489: a query step of the plan.
QueryStep(outcome) ==
    /\ fpc = "steps"
    /\ plan # <<>>
    /\ Head(plan) = "query"
    /\ step_from' = Len(trace)
    /\ LET prepared ==
               LogStep(StartStep(trace, clock, "sparql_query",
                                 "Step: Calling /mcp/sparql"),
                       clock, "sparql_query", "Prepared SPARQL payload",
                       "in_progress", <<"query_preview">>)
       IN  IF outcome = "fails"
           THEN /\ trace' = FailScenario(
                                LogError(prepared, clock,
                                         "MCP tool /mcp/sparql failed",
                                         "ConnectError"),
                                clock, ran_query, "ConnectError")
                /\ fpc' = "raised"
                /\ raised' = "ConnectError"
                /\ UNCHANGED <<plan, ran_query, have_rows>>
           ELSE /\ trace' = LogSparqlQuery(prepared, clock,
                                           IF outcome = "rows" THEN 1 ELSE 0)
                /\ plan' = Tail(plan)
                /\ ran_query' = TRUE
                /\ have_rows' = (outcome = "rows")
                /\ UNCHANGED <<fpc, raised>>
    /\ UNCHANGED <<bcVars, reqVars, demo_id, loopVars, concept_uris, graphVars, resolverVars, clock,
                   last_op, returned, detect_answer, detected,
                   payload_results, interp_asked, summary, result>>

\* Lines 276-308, 431-434, 1381-1440: an interpretation step of the plan.
InterpretStep(text, oracle) ==
    /\ fpc = "steps"
    /\ plan # <<>>
    /\ Head(plan) = "interpret"
    /\ step_from' = Len(trace)
    /\ payload_results' = text
    /\ LET started == StartStep(trace, clock, "concept_search",
                                "Step: Calling /mcp/interpret")
           interpretation ==
               IF CsvContentBlank(have_rows, text) THEN NoDataMessage
               ELSE CASE oracle = "text" -> "summary of the oracle"
                      [] oracle = "empty" -> EmptySynthesisMessage
                      [] OTHER -> SynthesisErrorMessage
           handled ==
               IF ~CsvContentBlank(have_rows, text) /\ oracle = "raises"
               THEN LogStep(started, clock, "result_interpretation",
                            "Synthese LLM indisponible, message de secours",
                            "in_progress", <<"error", "oracle">>)
               ELSE started
       IN  /\ interp_asked' = IF CsvContentBlank(have_rows, text)
                              THEN interp_asked ELSE interp_asked + 1
           /\ summary' = interpretation
           /\ trace' = LogInterpretation(handled, clock, interpretation)
    /\ plan' = Tail(plan)
    /\ UNCHANGED <<bcVars, reqVars, demo_id, loopVars, concept_uris, graphVars, resolverVars, clock,
                   last_op, returned, fpc, detect_answer, detected, ran_query,
                   have_rows, raised, result>>

\* Lines 436-471: the plan is done; the summary of last resort, the result.
Finish(service) ==
    /\ fpc = "steps"
    /\ plan = <<>>
    /\ step_from' = Len(trace)
    /\ LET started == IF summary = ""
                      THEN StartStep(trace, clock, "result_interpretation",
                                     "Generating final summary...")
                      ELSE trace
           calls == summary = "" /\ ran_query /\ have_rows
       IN  IF calls /\ service = "fails"
           THEN /\ trace' = FailScenario(
                                LogError(started, clock,
                                         "MCP tool /mcp/interpret failed",
                                         "ConnectError"),
                                clock, ran_query, "ConnectError")
                /\ fpc' = "raised"
                /\ raised' = "ConnectError"
                /\ UNCHANGED <<summary, result>>
           ELSE /\ summary' = IF calls THEN "summary of the service" ELSE summary
                /\ trace' = LogSuccess(
                                IF calls
                                THEN LogInterpretation(started, clock,
                                                       "summary of the service")
                                ELSE started,
                                clock, "Scenario completed successfully")
                /\ fpc' = "returned"
                /\ result' = "final_payload"
                /\ UNCHANGED raised
    /\ UNCHANGED <<bcVars, reqVars, demo_id, loopVars, concept_uris, graphVars, resolverVars, clock,
                   last_op, returned, detect_answer, detected, plan, ran_query,
                   have_rows, payload_results, interp_asked>>

\* Lines 1797-1799: a call of the default flow failed.
FailDefaultFlow(tool_message) ==
    /\ trace' = LogError(LogError(trace, clock, tool_message, "ConnectError"),
                         clock, "Fallback flow failed", "ConnectError")
    /\ fpc' = "raised"
    /\ raised' = "ConnectError"

\* Lines 1740-1747: step 1 of the default flow.
DefaultExtract(outcome) ==
    /\ fpc = "df_entities"
    /\ IF outcome = "fails"
       THEN FailDefaultFlow("MCP tool /mcp/extract_entities failed")
       ELSE /\ trace' = LogEntityExtraction(trace, clock, 1)
            /\ fpc' = "df_concepts"
            /\ UNCHANGED raised
    /\ UNCHANGED <<bcVars, reqVars, demo_id, loopVars, concept_uris, graphVars, resolverVars, clock,
                   last_op, returned, detect_answer, detected, plan, ran_query,
                   have_rows, payload_results, interp_asked, step_from,
                   summary, result>>

\* Lines 1749-1759: step 2; without concepts the function ends and returns
\* None.
DefaultConcepts(outcome) ==
    /\ fpc = "df_concepts"
    /\ IF outcome = "fails"
       THEN FailDefaultFlow("MCP tool /mcp/concepts failed") /\ UNCHANGED result
       ELSE /\ trace' = LogConceptSearch(trace, clock,
                                         IF outcome = "found" THEN 1 ELSE 0)
            /\ fpc' = IF outcome = "found" THEN "df_sparql" ELSE "returned"
            /\ result' = IF outcome = "found" THEN result ELSE "None"
            /\ UNCHANGED raised
    /\ UNCHANGED <<bcVars, reqVars, demo_id, loopVars, concept_uris, graphVars, resolverVars, clock,
                   last_op, returned, detect_answer, detected, plan, ran_query,
                   have_rows, payload_results, interp_asked, step_from,
                   summary>>

\* Lines 1760-1771: step 3, the exploratory query.
DefaultSparql(outcome) ==
    /\ fpc = "df_sparql"
    /\ IF outcome = "fails"
       THEN FailDefaultFlow("MCP tool /mcp/sparql failed")
            /\ UNCHANGED <<ran_query, have_rows>>
       ELSE /\ trace' = LogSparqlQuery(trace, clock,
                                       IF outcome = "rows" THEN 1 ELSE 0)
            /\ fpc' = "df_interpret"
            /\ ran_query' = TRUE
            /\ have_rows' = (outcome = "rows")
            /\ UNCHANGED raised
    /\ UNCHANGED <<bcVars, reqVars, demo_id, loopVars, concept_uris, graphVars, resolverVars, clock,
                   last_op, returned, detect_answer, detected, plan,
                   payload_results, interp_asked, step_from, summary, result>>

\* Lines 1773-1795: step 4, the interpretation service, and the result.
DefaultInterpret(outcome) ==
    /\ fpc = "df_interpret"
    /\ IF outcome = "fails"
       THEN FailDefaultFlow("MCP tool /mcp/interpret failed")
            /\ UNCHANGED <<summary, result>>
       ELSE /\ summary' = "summary of the service"
            /\ trace' = LogInterpretation(trace, clock, "summary of the service")
            /\ fpc' = "returned"
            /\ result' = "default_flow_payload"
            /\ UNCHANGED raised
    /\ UNCHANGED <<bcVars, reqVars, demo_id, loopVars, concept_uris, graphVars, resolverVars, clock,
                   last_op, returned, detect_answer, detected, plan, ran_query,
                   have_rows, payload_results, interp_asked, step_from>>

FlowNext ==
    \/ \E answer \in DetectAnswers : Detect(answer)
    \/ \E id \in CallerScenarioIds : ForceScenario(id)
    \/ DemoShortcut
    \/ UnknownScenario
    \/ \E answer \in PlanAnswers : PlanCall(answer)
    \/ \E outcome \in {"rows", "no_rows", "fails"} : QueryStep(outcome)
    \/ \E text \in PayloadResults, oracle \in {"text", "empty", "raises"} :
          InterpretStep(text, oracle)
    \/ \E service \in {"ok", "fails"} : Finish(service)
    \/ \E outcome \in {"ok", "fails"} : DefaultExtract(outcome)
    \/ \E outcome \in {"found", "empty", "fails"} : DefaultConcepts(outcome)
    \/ \E outcome \in {"rows", "no_rows", "fails"} : DefaultSparql(outcome)
    \/ \E outcome \in {"ok", "fails"} : DefaultInterpret(outcome)

FlowSpec == FlowInit /\ [][FlowNext]_vars

(***************************************************************************)
(* _prepare_sparql_payload called on its own (lines 1124-1175), as the     *)
(* loop calls it at line 313 and as tests/test_agent_templates.py calls    *)
(* it: with a payload, a context and a scenario id.                        *)
(***************************************************************************)
\* The ids the function is called with: those execute_scenario accepts and
\* the federation scenario the constructor removed from the table.
PrepareScenarioIds == ScenarioIds \cup {"scenario_3_federation"}

PrepareInit ==
    /\ pc = "prepare"
    /\ step = 0
    /\ scenario_id \in PrepareScenarioIds
    /\ concept_uris \in UriLists
    /\ payload_query \in PlanQueries
    /\ plan_blank = (Strip(payload_query) = <<>>)
    /\ fallback_attempted = FALSE
    /\ regen_attempts = 0
    /\ error = "none"
    /\ repair = <<>>
    /\ sent = <<>>
    /\ exec_count = 0
    /\ regen_total = 0
    /\ oracle_calls = 0
    /\ fallback_count = 0
    /\ GraphUnused
    /\ ExtIdle

\* Lines 1132-1175: payload["query"] is replaced by the prepared text.
Prepare ==
    /\ pc = "prepare"
    /\ LET q == PrepareSparqlPayload(payload_query, concept_uris, scenario_id)
       IN  /\ payload_query' = q
           /\ sent' = q
    /\ pc' = "prepared"
    /\ UNCHANGED <<extVars, graphVars, step, scenario_id, concept_uris,
                   plan_blank, fallback_attempted, regen_attempts, error,
                   repair, exec_count, regen_total, oracle_calls,
                   fallback_count>>

PrepareNext == Prepare

PrepareSpec == PrepareInit /\ [][PrepareNext]_vars

(***************************************************************************)
(* Requests served concurrently by the one executor of api/agent.py (line  *)
(* 26).  A request runs detect_scenario and execute_scenario as one        *)
(* coroutine; it is suspended only where the code awaits: the service call *)
(* of a step (line 327), the oracle call of an interpretation step (lines  *)
(* 299 and 1427) and the service call of the final summary (line 447).     *)
(* Between two suspension points a request runs without interleaving.      *)
(* What the oracle and the services answer to a request is fixed by its    *)
(* job; datetime.now() is held at 0.                                       *)
(***************************************************************************)
MaxRequests == 2
MaxCalls == 5

Requests == 1..MaxRequests

\* Lines 195-204: the context dict of a request.
NewContext ==
    [concept_uris |-> <<>>, last_sparql_results |-> <<>>,
     last_sparql_query |-> <<>>]

\* Line 195 with the context kept on the executor instead.
ContextKey_OnExecutor(r) == 0

\* Line 195: context is a local of execute_scenario, one per request.
ContextKey(r) == r

\* Line 327 without the await: the coroutine goes on while the call runs.
AfterIssue_NotAwaited == "ready"

\* Lines 299, 327, 447: the coroutine is suspended until the call answers.
AfterIssue == "waiting"

\* The steps of an execution plan, with what the services and the oracle
\* answer when the step runs.
PlanConcepts(cs, choice) ==
    [tool |-> "/mcp/concepts", query |-> <<>>, concepts |-> cs,
     choice |-> choice, outcomes |-> <<>>, repair |-> <<>>, text |-> ""]

PlanSparql(q, outcomes, answer) ==
    [tool |-> "/mcp/sparql", query |-> q, concepts |-> <<>>, choice |-> <<>>,
     outcomes |-> outcomes, repair |-> answer, text |-> ""]

PlanInterpret(text) ==
    [tool |-> "/mcp/interpret", query |-> <<>>, concepts |-> <<>>,
     choice |-> <<>>, outcomes |-> <<>>, repair |-> <<>>, text |-> text]

Rejected == [ok |-> FALSE, rows |-> <<>>]
Answered(rows) == [ok |-> TRUE, rows |-> rows]

JobNeighbourhood ==
    [detect |-> <<"scenario_1_neighbourhood">>,
     plan |-> <<PlanConcepts(<<[uri |-> UriPrefixed,
                                label |-> <<"Hearing", "Loss">>]>>, <<>>),
                PlanSparql(<<>>, <<Answered(<<RowRelabelled>>)>>, <<>>),
                PlanInterpret("Hearing loss and its neighbours")>>,
     final |-> ""]

JobMultihop ==
    [detect |-> <<"scenario_2_multihop">>,
     plan |-> <<PlanConcepts(<<[uri |-> UriA, label |-> <<"Chronic", "Stress">>],
                               [uri |-> UriPrefixed,
                                label |-> <<"Hearing", "Loss">>]>>, UriB),
                PlanConcepts(<<[uri |-> UriPrefixed,
                                label |-> <<"Hearing", "Loss">>]>>, <<>>),
                PlanSparql(<<"SELECT", "?s", "WHERE", "{", "{{SOURCE_URI}}",
                             "?p", "{{TARGET_URI}}", "}">>,
                           <<Rejected, Answered(<<RowTwoHop>>)>>,
                           <<"I", "cannot", "fix", "this">>)>>,
     final |-> "A path through tinnitus"]

JobUndetected ==
    [detect |-> OracleRaises,
     plan |-> <<PlanSparql(<<"SELECT", "?o", "WHERE", "{", "<SOURCE_URI>",
                             "?p", "?o", "}">>, <<Rejected>>, OracleRaises)>>,
     final |-> ""]

JobNoData ==
    [detect |-> <<WS, "scenario_4_validation", WS>>,
     plan |-> <<PlanSparql(<<>>, <<Answered(<<>>)>>, <<>>),
                PlanInterpret("never asked")>>,
     final |-> ""]

\* A second query step that the service rejects after a first one answered.
JobSecondQueryFails ==
    [detect |-> <<"scenario_1_neighbourhood">>,
     plan |-> <<PlanSparql(<<"SELECT", "?s", "WHERE", "{", "?s", "?p", "?o", "}">>,
                           <<Answered(<<RowPlain>>)>>, <<>>),
                PlanSparql(<<"SELECT", "?o", "WHERE", "{", "?s", "?p", "?o", "}">>,
                           <<Rejected>>, OracleRaises)>>,
     final |-> ""]

\* A first query step that returns a row, a second one that returns none,
\* and no interpretation step.
JobRowsThenNone ==
    [detect |-> <<"scenario_1_neighbourhood">>,
     plan |-> <<PlanSparql(<<"SELECT", "?s", "WHERE", "{", "?s", "?p", "?o", "}">>,
                           <<Answered(<<RowPlain>>)>>, <<>>),
                PlanSparql(<<"SELECT", "?o", "WHERE", "{", "?s", "?p", "?o", "}">>,
                           <<Answered(<<>>)>>, <<>>)>>,
     final |-> "never asked"]

JobPool ==
    {JobNeighbourhood, JobMultihop, JobUndetected, JobNoData,
     JobSecondQueryFails, JobRowsThenNone}

\* A request as api/agent.py line 96 and execute_scenario lines 269-274,
\* 293-294 set it up.
NewRequest(job) ==
    [pc |-> "new", job |-> job, scenario |-> "", k |-> 1, query |-> <<>>,
     fallback_attempted |-> FALSE, regen_attempts |-> 0, attempt |-> 0,
     calls |-> 0, final_calls |-> 0, folded |-> <<>>,
     results |-> [nodes |-> <<>>, links |-> <<>>, sparql_queries |-> <<>>,
                  summary |-> ""],
     ran_query |-> FALSE, sparql_results |-> <<>>, trace |-> <<>>]

Least(a, b) == IF a < b THEN a ELSE b

\* Lines 276-295: the loop turns to plan step k (or leaves the loop).
EnterStep(m, k) ==
    [m EXCEPT !.k = k,
              !.query = IF k <= Len(m.job.plan) THEN m.job.plan[k].query
                        ELSE <<>>,
              !.attempt = 0,
              !.fallback_attempted = FALSE,
              !.regen_attempts = 0,
              !.pc = "ready"]

\* The outcome of step s has been folded into the context and the results.
Advance(m, s) == EnterStep([m EXCEPT !.folded = Append(@, s)], s + 1)

\* Lines 1592-1594, 1613-1617, 1601, 1604: the candidates after
\* _select_best_concept, which expands in place the URI of those it handles.
ConceptsAfterSelection(cs) ==
    LET touched == IF cs = <<>> THEN {}
                   ELSE IF Len(Remaining(cs)) = 1 THEN {Remaining(cs)[1]}
                   ELSE {TopK(Shortlisted(cs))[i] :
                            i \in 1..Len(TopK(Shortlisted(cs)))}
    IN  [i \in 1..Len(cs) |->
            IF i \in touched THEN [cs[i] EXCEPT !.uri = ExpandUri(@)] ELSE cs[i]]

RECURSIVE AppendConceptNodes(_, _)
AppendConceptNodes(ns, cs) ==
    IF cs = <<>> THEN ns
    ELSE AppendConceptNodes(
             Append(ns, [id |-> Head(cs).uri, label |-> Head(cs).label,
                         type |-> "concept"]),
             Tail(cs))

\* api/agent.py lines 96-106, execute_scenario lines 192-222: detection, the
\* fresh context, the lookup in the scenario table.
StartOp(m, table) ==
    LET scen == DetectedScenario(m.job.detect)
        started == StartStep(<<>>, 0, "scenario_detection",
                             "Analyzing question to identify scenario...")
        detection == IF m.job.detect = OracleRaises
                     THEN LogError(started, 0, "Scenario detection failed",
                                   "oracle")
                     ELSE LogScenarioDetection(started, 0, scen)
    IN  [ctx |-> NewContext,
         m |-> IF scen \notin table
               THEN [m EXCEPT !.pc = "failed", !.scenario = scen,
                              !.trace = detection]
               ELSE EnterStep(
                        [m EXCEPT !.scenario = scen,
                                  !.trace = LogStep(detection, 0,
                                                    "scenario_detection",
                                                    "Executing scenario",
                                                    "completed",
                                                    <<"scenario_id", scen>>)],
                        1)]

\* Whether the request, where it stands, makes an awaited call: a plan step
\* other than an interpretation without data (line 1398), or the final
\* summary when none was produced and rows were returned (lines 437-445).
StepNeedsCall(m, ctx) ==
    IF m.k <= Len(m.job.plan)
    THEN m.job.plan[m.k].tool = "/mcp/interpret"
            => ~CsvContentBlank(ctx.last_sparql_results # <<>>, <<>>)
    ELSE m.results.summary = "" /\ m.ran_query /\ m.sparql_results # <<>>

CallKind(m) ==
    IF m.k <= Len(m.job.plan) /\ m.job.plan[m.k].tool = "/mcp/interpret"
    THEN "oracle" ELSE "service"

\* Lines 287-290 and 438: the step is announced, once.
StartedTrace(m) ==
    IF m.attempt # 0 THEN m.trace
    ELSE IF m.k <= Len(m.job.plan)
    THEN StartStep(m.trace, 0,
                   IF m.job.plan[m.k].tool = "/mcp/sparql" THEN "sparql_query"
                   ELSE "concept_search",
                   "Calling tool")
    ELSE IF m.results.summary = ""
    THEN StartStep(m.trace, 0, "result_interpretation",
                   "Generating final summary...")
    ELSE m.trace

\* Lines 297-327, 1427, 447: up to the point where the call is awaited.
IssueOp(m, ctx) ==
    LET sparql == m.k <= Len(m.job.plan) /\ m.job.plan[m.k].tool = "/mcp/sparql"
        q == IF sparql
             THEN PrepareSparqlPayload(m.query, ctx.concept_uris, m.scenario)
             ELSE m.query
    IN  [m EXCEPT !.query = q,
                  !.attempt = @ + 1,
                  !.calls = @ + 1,
                  !.final_calls = IF m.k > Len(m.job.plan) THEN @ + 1 ELSE @,
                  !.pc = AfterIssue,
                  !.trace = IF sparql
                            THEN LogStep(StartedTrace(m), 0, "sparql_query",
                                         "Prepared SPARQL payload",
                                         "in_progress", <<"query_preview", q>>)
                            ELSE StartedTrace(m)]

\* Lines 384-418: the answer of the concept-similarity service is folded.
FoldConcepts(m, ctx, s) ==
    LET cs == m.job.plan[s].concepts
        idx == SelectBestConcept(cs, m.job.plan[s].choice)
        best_uri == IF idx = 0 THEN <<>> ELSE ExpandUri(cs[idx].uri)
        fresh == /\ best_uri # <<>>
                 /\ \A i \in 1..Len(ctx.concept_uris) :
                        ctx.concept_uris[i] # best_uri
        searched == LogConceptSearch(m.trace, 0, Len(cs))
    IN  [ctx |-> IF fresh
                 THEN [ctx EXCEPT !.concept_uris = Append(@, best_uri)]
                 ELSE ctx,
         m |-> Advance(
                  [m EXCEPT
                     !.trace = IF fresh
                               THEN LogStep(searched, 0, "concept_search",
                                            "Selected concept", "completed",
                                            <<"uri", best_uri>>)
                               ELSE searched,
                     !.results.nodes =
                         AppendConceptNodes(@, ConceptsAfterSelection(cs))],
                  s)]

\* Lines 420-430: the rows of the execution service are folded.
FoldRows(m, ctx, s, rows) ==
    LET g == IF rows = <<>> THEN [nodes |-> m.results.nodes,
                                  links |-> m.results.links]
             ELSE MergeGraphResults([nodes |-> m.results.nodes,
                                     links |-> m.results.links],
                                    rows, ctx.concept_uris)
    IN  [ctx |-> [ctx EXCEPT !.last_sparql_results = rows,
                             !.last_sparql_query = m.query],
         m |-> Advance(
                  [m EXCEPT !.trace = LogSparqlQuery(@, 0, Len(rows)),
                            !.results.nodes = g.nodes,
                            !.results.links = g.links,
                            !.results.sparql_queries = Append(@, m.query),
                            !.ran_query = TRUE,
                            !.sparql_results = rows],
                  s)]

\* Lines 330-376 with the rejected query recorded in the context.
ContextAfterRejection_RecordsQuery(ctx, q) ==
    [ctx EXCEPT !.last_sparql_query = q]

\* Lines 330-376: the handler of a rejection writes nothing to the context.
ContextAfterRejection(ctx, q) == ctx

\* Lines 159-166, 330-376, 478-489: the execution service rejected the query.
FoldRejection(m, ctx, s) ==
    LET logged == LogError(m.trace, 0, "MCP tool /mcp/sparql failed", "HTTP")
        repaired == IF RegenAllowed(m.regen_attempts)
                    THEN RegenerateSparqlQuery(m.job.plan[s].repair)
                    ELSE <<>>
        fallback == IF m.fallback_attempted THEN <<>>
                    ELSE BuildFallbackSparql(m.scenario, ctx.concept_uris)
    IN  [ctx |-> ContextAfterRejection(ctx, m.query),
         m |-> IF repaired # <<>>
               THEN [m EXCEPT !.regen_attempts = RegenCounterAfterRepair(@),
                              !.query = repaired,
                              !.pc = "ready",
                              !.trace = LogStep(logged, 0, "sparql_query",
                                            "Retrying SPARQL with regenerated query",
                                            "in_progress",
                                            <<"query_preview", repaired>>)]
               ELSE IF fallback # <<>>
               THEN [m EXCEPT !.fallback_attempted = FallbackFlagAfterSubstitution,
                              !.regen_attempts = 0,
                              !.query = fallback,
                              !.pc = "ready",
                              !.trace = LogStep(logged, 0, "sparql_query",
                                            "Retrying SPARQL with fallback query",
                                            "in_progress",
                                            <<"query_preview", fallback>>)]
               ELSE [m EXCEPT !.pc = "failed",
                              !.trace = FailScenarioWithQuery(
                                            logged, 0, ctx.last_sparql_query,
                                            "HTTPStatusError")]]

\* Lines 431-435 and 1427-1440: the oracle's synthesis is folded.
FoldInterpretation(m, ctx, s) ==
    LET text == IF m.job.plan[s].text = "" THEN EmptySynthesisMessage
                ELSE m.job.plan[s].text
    IN  [ctx |-> ctx,
         m |-> Advance([m EXCEPT !.results.summary = text,
                                 !.trace = LogInterpretation(@, 0, text)],
                       s)]

\* Lines 456-471: the final summary is folded and the result returned.
FoldFinalSummary(m, ctx) ==
    [ctx |-> ctx,
     m |-> [m EXCEPT !.results.summary = m.job.final,
                     !.trace = LogSuccess(LogInterpretation(@, 0, m.job.final),
                                          0, "Scenario completed successfully"),
                     !.pc = "done"]]

\* What the request does when the call it made for step s answers.
ReceiveOp(m, ctx, s) ==
    IF s > Len(m.job.plan) THEN FoldFinalSummary(m, ctx)
    ELSE IF m.job.plan[s].tool = "/mcp/concepts" THEN FoldConcepts(m, ctx, s)
    ELSE IF m.job.plan[s].tool = "/mcp/interpret"
    THEN FoldInterpretation(m, ctx, s)
    ELSE LET outcomes == m.job.plan[s].outcomes
             outcome == outcomes[Least(IF m.attempt = 0 THEN 1 ELSE m.attempt,
                                       Len(outcomes))]
         IN  IF outcome.ok THEN FoldRows(m, ctx, s, outcome.rows)
             ELSE FoldRejection(m, ctx, s)

\* Lines 1398-1403, 431-435: an interpretation step without data.
InterpretNoDataOp(m, ctx) ==
    [ctx |-> ctx,
     m |-> Advance([m EXCEPT !.results.summary = NoDataMessage,
                             !.trace = LogInterpretation(StartedTrace(m), 0,
                                                         NoDataMessage)],
                   m.k)]

\* Lines 437-471 when no call is made: the result is returned.
CompleteOp(m, ctx) ==
    [ctx |-> ctx,
     m |-> [m EXCEPT !.trace = LogSuccess(StartedTrace(m), 0,
                                          "Scenario completed successfully"),
                     !.pc = "done"]]

\* What the caller of the request gets.
Outcome(m) ==
    [status |-> m.pc, scenario |-> m.scenario, results |-> m.results,
     trace |-> m.trace]

\* The request served alone: its steps one after the other, on its own
\* context, against the answers of its job.
NextAlone(x) ==
    IF x.m.pc = "new" THEN StartOp(x.m, ScenarioIds)
    ELSE IF x.m.k <= Len(x.m.job.plan) /\ ~StepNeedsCall(x.m, x.ctx)
    THEN InterpretNoDataOp(x.m, x.ctx)
    ELSE IF ~StepNeedsCall(x.m, x.ctx) THEN CompleteOp(x.m, x.ctx)
    ELSE ReceiveOp(IssueOp(x.m, x.ctx), x.ctx, x.m.k)

RECURSIVE RunAlone(_)
RunAlone(x) ==
    IF x.m.pc \in {"done", "failed"} THEN x ELSE RunAlone(NextAlone(x))

Alone(job) == Outcome(RunAlone([m |-> NewRequest(job), ctx |-> NewContext]).m)

ContextOf(r) == contexts[ContextKey(r)]

RequestsInit ==
    /\ pc = "requests"
    /\ LoopUnused
    /\ GraphUnused
    /\ ResolverIdle
    /\ LoggerIdle
    /\ FlowIdle
    /\ BroadcasterIdle
    /\ scenarios = ScenarioIds
    /\ contexts = [key \in {ContextKey(r) : r \in Requests} |-> NewContext]
    /\ req \in [Requests -> {NewRequest(job) : job \in JobPool}]
    /\ in_flight = {}

\* The request arrives and runs up to its first suspension point.
ReqStart(r) ==
    /\ req[r].pc = "new"
    /\ LET x == StartOp(req[r], scenarios)
       IN  /\ req' = [req EXCEPT ![r] = x.m]
           /\ contexts' = [contexts EXCEPT ![ContextKey(r)] = x.ctx]
    /\ UNCHANGED <<bcVars, loopVars, concept_uris, graphVars, resolverVars, loggerVars,
                   flowVars, scenarios, in_flight>>

\* The request issues the call of its current step and is suspended.
ReqIssue(r) ==
    /\ req[r].pc = "ready"
    /\ req[r].calls < MaxCalls
    /\ StepNeedsCall(req[r], ContextOf(r))
    /\ in_flight' = in_flight \cup {[req |-> r, step |-> req[r].k,
                                     kind |-> CallKind(req[r]),
                                     id |-> req[r].calls + 1]}
    /\ req' = [req EXCEPT ![r] = IssueOp(req[r], ContextOf(r))]
    /\ UNCHANGED <<bcVars, loopVars, concept_uris, graphVars, resolverVars, loggerVars,
                   flowVars, scenarios, contexts>>

\* A call answers; the request resumes and runs up to its next suspension
\* point.
ReqReceive(c) ==
    /\ c \in in_flight
    /\ req[c.req].pc \in {"waiting", "ready"}
    /\ in_flight' = in_flight \ {c}
    /\ LET x == ReceiveOp(req[c.req], ContextOf(c.req), c.step)
       IN  /\ req' = [req EXCEPT ![c.req] = x.m]
           /\ contexts' = [contexts EXCEPT ![ContextKey(c.req)] = x.ctx]
    /\ UNCHANGED <<bcVars, loopVars, concept_uris, graphVars, resolverVars, loggerVars,
                   flowVars, scenarios>>

\* An interpretation step without data completes without a call.
ReqInterpretNoData(r) ==
    /\ req[r].pc = "ready"
    /\ req[r].k <= Len(req[r].job.plan)
    /\ ~StepNeedsCall(req[r], ContextOf(r))
    /\ LET x == InterpretNoDataOp(req[r], ContextOf(r))
       IN  /\ req' = [req EXCEPT ![r] = x.m]
           /\ contexts' = [contexts EXCEPT ![ContextKey(r)] = x.ctx]
    /\ UNCHANGED <<bcVars, loopVars, concept_uris, graphVars, resolverVars, loggerVars,
                   flowVars, scenarios, in_flight>>

\* The plan is exhausted and no final summary is requested.
ReqComplete(r) ==
    /\ req[r].pc = "ready"
    /\ req[r].k > Len(req[r].job.plan)
    /\ ~StepNeedsCall(req[r], ContextOf(r))
    /\ LET x == CompleteOp(req[r], ContextOf(r))
       IN  /\ req' = [req EXCEPT ![r] = x.m]
           /\ contexts' = [contexts EXCEPT ![ContextKey(r)] = x.ctx]
    /\ UNCHANGED <<bcVars, loopVars, concept_uris, graphVars, resolverVars, loggerVars,
                   flowVars, scenarios, in_flight>>

RequestsNext ==
    \/ \E r \in Requests : ReqStart(r)
    \/ \E r \in Requests : ReqIssue(r)
    \/ \E c \in in_flight : ReqReceive(c)
    \/ \E r \in Requests : ReqInterpretNoData(r)
    \/ \E r \in Requests : ReqComplete(r)

RequestsSpec == RequestsInit /\ [][RequestsNext]_vars

(***************************************************************************)
(* The status broadcaster (status_stream.py, StatusBroadcaster) driven by  *)
(* subscribers and by publishers that run on the event loop or off it.     *)
(* A queue is named by the order of its creation; queues[q] is what was    *)
(* put into it so far.                                                     *)
(***************************************************************************)
MaxQueues == 2
MaxMessages == 3

BroadcastInit ==
    /\ pc = "broadcast"
    /\ RequestsIdle
    /\ LoopUnused
    /\ GraphUnused
    /\ ResolverIdle
    /\ LoggerIdle
    /\ FlowIdle
    /\ BroadcasterIdle

\* The subscribers in the order the snapshot of line 24 lists them.
RECURSIVE Snapshot(_)
Snapshot(qs) ==
    IF qs = {} THEN <<>>
    ELSE LET q == CHOOSE x \in qs : \A y \in qs : x <= y
         IN  <<q>> \o Snapshot(qs \ {q})

\* Lines 15-18: subscribe creates a queue and adds it.
Subscribe ==
    /\ Len(queues) < MaxQueues
    /\ queues' = Append(queues, <<>>)
    /\ due' = Append(due, <<>>)
    /\ subscribers' = subscribers \cup {Len(queues) + 1}
    /\ UNCHANGED <<loop_calls, published>>
    /\ UNCHANGED <<loopVars, concept_uris, graphVars, resolverVars, loggerVars,
                   flowVars, reqVars>>

\* Lines 20-21: unsubscribe discards the queue, subscribed or not.
Unsubscribe(q) ==
    /\ q \in 1..Len(queues)
    /\ subscribers' = subscribers \ {q}
    /\ UNCHANGED <<queues, loop_calls, due, published>>
    /\ UNCHANGED <<loopVars, concept_uris, graphVars, resolverVars, loggerVars,
                   flowVars, reqVars>>

\* Lines 23-37: publish.  on_loop: the caller runs on the event loop
\* (get_running_loop succeeds) and each put is scheduled with
\* call_soon_threadsafe; otherwise put_nowait is called at once.
Publish(on_loop) ==
    /\ published < MaxMessages
    /\ published' = published + 1
    /\ LET message == published + 1
           targets == Snapshot(subscribers)
       IN  /\ due' = [q \in 1..Len(due) |->
                         IF q \in subscribers THEN Append(due[q], message)
                         ELSE due[q]]
           /\ IF on_loop
              THEN /\ loop_calls' =
                         loop_calls \o [i \in 1..Len(targets) |->
                                           [queue |-> targets[i],
                                            message |-> message]]
                   /\ UNCHANGED queues
              ELSE /\ queues' = [q \in 1..Len(queues) |->
                                    IF q \in subscribers
                                    THEN Append(queues[q], message)
                                    ELSE queues[q]]
                   /\ UNCHANGED loop_calls
    /\ UNCHANGED subscribers
    /\ UNCHANGED <<loopVars, concept_uris, graphVars, resolverVars, loggerVars,
                   flowVars, reqVars>>

\* The event loop runs the oldest scheduled callback: queue.put_nowait.
RunCallback ==
    /\ loop_calls # <<>>
    /\ queues' = [queues EXCEPT ![Head(loop_calls).queue] =
                     Append(@, Head(loop_calls).message)]
    /\ loop_calls' = Tail(loop_calls)
    /\ UNCHANGED <<subscribers, due, published>>
    /\ UNCHANGED <<loopVars, concept_uris, graphVars, resolverVars, loggerVars,
                   flowVars, reqVars>>

BroadcastNext ==
    \/ Subscribe
    \/ \E q \in 1..MaxQueues : Unsubscribe(q)
    \/ \E on_loop \in BOOLEAN : Publish(on_loop)
    \/ RunCallback

BroadcastSpec == BroadcastInit /\ [][BroadcastNext]_vars

(***************************************************************************)
(* Properties of the query preparation and resilience loop.                *)
(***************************************************************************)

\* C1: every query text a query-execution step sends to the execution
\* service, on the first attempt and on every retry, is non-empty; when the
\* plan gave no text and no template applies, the first query sent is the
\* one-row diagnostic SELECT.
C1_NeverSendsEmptyQuery ==
    /\ exec_count > 0 => sent # <<>>
    /\ (exec_count = 1 /\ plan_blank
            /\ ScenarioTemplate(scenario_id, concept_uris) = <<>>)
          => sent = DiagnosticQuery

C1_Witness ==
    /\ exec_count = 1
    /\ plan_blank
    /\ scenario_id = "scenario_2_multihop"
    /\ Len(concept_uris) = 1
    /\ sent = DiagnosticQuery

\* C2 as stated: the number of accepted oracle repairs in one step never
\* exceeds the bound of seven.
C2_RegenerationsWithinBound == regen_total <= RegenBound

\* C2 as amended: the regeneration counter never exceeds seven, and since the
\* fallback substitution resets it, a step performs at most seven repairs
\* before the fallback and seven after it (fourteen, counted as accepted
\* repairs or as requests to the oracle); seven when no fallback is made.
C2_RegenerationsPerPhaseWithinBound ==
    /\ regen_attempts <= RegenBound
    /\ regen_total <= 2 * RegenBound
    /\ oracle_calls <= 2 * RegenBound
    /\ fallback_count = 0 => (regen_total <= RegenBound /\ oracle_calls <= RegenBound)

C2_Witness ==
    /\ regen_total = 2 * RegenBound
    /\ fallback_count = 1
    /\ regen_attempts = RegenBound

\* C3 as stated: a step calls the execution service at most bound + 1 = 8
\* times.
C3_AttemptsWithinBoundPlusOne == exec_count <= RegenBound + 1

\* C3 as amended: a step calls the execution service at most
\* 2 * (bound + 1) = 16 times: at most 8 times up to the fallback
\* substitution and at most 8 times after it; a step without fallback
\* substitution calls it at most 8 times.
C3_AttemptsWithinTwiceBoundPlusOne ==
    /\ exec_count <= 2 * (RegenBound + 1)
    /\ fallback_count = 0 => exec_count <= RegenBound + 1

C3_Witness ==
    /\ exec_count = 2 * (RegenBound + 1)
    /\ pc = "failed"

\* C4: the retry loop of a query-execution step terminates, in success or in
\* a failure, whatever the service and the oracle answer.
C4_LoopTerminates ==
    (pc \in {"try", "except"}) ~> (pc \in {"plan", "failed", "default_flow"})

C4_Witness ==
    /\ pc = "failed"
    /\ error = "HTTPStatusError"
    /\ regen_total = 2 * RegenBound
    /\ fallback_attempted

\* C5: within one step the fallback substitution happens at most once: the
\* flag, once set, stays set until the step ends and no second fallback
\* query is substituted; every step begins with the flag cleared.
C5_FallbackAtMostOnce ==
    [][ /\ (step' = step /\ fallback_attempted)
             => (fallback_attempted' /\ fallback_count' = fallback_count)
        /\ (step' # step) => ~fallback_attempted'
        /\ fallback_count' <= 1 ]_vars

C5_Witness ==
    /\ fallback_attempted
    /\ fallback_count = 1
    /\ pc = "except"
    /\ regen_attempts = RegenBound

\* C6 as stated: once the fallback attempt has been used, a further rejection
\* by the service moves the step to FAIL.
C6_RejectionAfterFallbackFails ==
    [][ (pc = "except" /\ fallback_attempted) => pc' = "failed" ]_vars

\* C6 as amended: once the fallback attempt has been used, a further
\* rejection moves the step to FAIL when regeneration gives no replacement
\* (the counter, reset by the fallback, has reached seven, or the oracle
\* returned no acceptable repair); otherwise the step retries with the
\* repaired query, and never with a second fallback query.
C6_RejectionAfterFallbackFailsOrRegenerates ==
    [][ (pc = "except" /\ fallback_attempted) =>
          \/ /\ pc' = "failed"
             /\ repair' = <<>>
             /\ payload_query' = payload_query
          \/ /\ pc' = "try"
             /\ regen_attempts < RegenBound
             /\ regen_attempts' = regen_attempts + 1
             /\ repair' # <<>>
             /\ payload_query' = repair'
             /\ fallback_count' = fallback_count ]_vars

C6_Witness ==
    /\ pc = "failed"
    /\ fallback_attempted
    /\ regen_attempts \in 1..(RegenBound - 1)

\* C7: a step whose scenario has an applicable deterministic template fails
\* with the re-raised rejection only after regeneration was tried and one
\* fallback query was substituted and executed.
C7_FailsOnlyAfterBothStages ==
    (/\ pc = "failed"
     /\ error = "HTTPStatusError"
     /\ ScenarioTemplate(scenario_id, concept_uris) # <<>>)
        => (oracle_calls >= 1 /\ fallback_count = 1 /\ fallback_attempted)

\* C8: an exception of the call other than a non-2xx status propagates out
\* of execute_scenario (the request fails) with no regeneration and no
\* fallback.
C8_OtherExceptionsPropagate ==
    (error \in CallErrors \ {"HTTPStatusError"}) => pc = "failed"

\* C9 as stated: a timeout of the call enters the recovery stages as a
\* rejected query does.
C9_TimeoutIsRecoverable ==
    [][ (pc = "try" /\ error' = "TimeoutException") => pc' = "except" ]_vars

\* C9 as amended: a timeout of the call is not recoverable: it ends the
\* retry loop at once, with no regeneration and no fallback substitution,
\* and the request fails.
C9_TimeoutPropagates ==
    [][ /\ (pc = "try" /\ error' = "TimeoutException") =>
              /\ pc' = "failed"
              /\ UNCHANGED <<regen_attempts, fallback_attempted, repair,
                             regen_total, oracle_calls, fallback_count>>
        /\ pc = "failed" => pc' = "failed" ]_vars

C9_Witness ==
    /\ pc = "failed"
    /\ error = "TimeoutException"
    /\ exec_count > 1
    /\ regen_total = exec_count - 1

(***************************************************************************)
(* Properties of the graph accumulator.                                    *)
(***************************************************************************)

\* C10: merging a row set twice in a row leaves exactly the node list (ids,
\* labels, types) and the link list that merging it once left.
C10_MergeIdempotent ==
    gpc = "remerged" => (nodes = once_nodes /\ links = once_links)

C10_Witness ==
    /\ gpc = "remerged"
    /\ Len(last_rows) = 3
    /\ Len(links) >= 3
    /\ \E i \in 1..Len(nodes) : nodes[i].label = <<>>

\* C11: the link list never holds two entries with the same
\* (source, target, relation) key, whatever rows were merged; after the two
\* identical rows (A, r1, B) are merged in one result there is exactly one
\* link with the key (A, B, r1).
C11_NoDuplicateLinkKey ==
    /\ \A i, j \in 1..Len(links) : LinkKey(links[i]) = LinkKey(links[j]) => i = j
    /\ (gpc \in {"merged", "remerged"} /\ last_rows = <<RowPlain, RowPlain>>)
          => Cardinality({i \in 1..Len(links) :
                              LinkKey(links[i]) = <<UriA, UriB, RelCauses>>}) = 1

C11_Witness ==
    /\ gpc = "remerged"
    /\ merges = 2
    /\ last_rows = <<RowPlain, RowPlain>>
    /\ Len(links) >= 2

\* C12: a merge never removes or reorders nodes and never changes the label
\* of a node whose label is non-empty; a node a merge creates carries the
\* label a row gives it or, when no row gives one, the label inferred from
\* the last fragment or path segment of its URI, and that label is not empty.
C12_LabelNeverOverwritten ==
    [][ /\ Len(nodes') >= Len(nodes)
        /\ \A i \in 1..Len(nodes) :
              /\ nodes'[i].id = nodes[i].id
              /\ nodes[i].label # <<>> => nodes'[i].label = nodes[i].label
        /\ concept_nodes' = concept_nodes =>
              \A i \in (Len(nodes) + 1)..Len(nodes') :
                 LET given == RowLabels(last_rows', nodes'[i].id, concept_uris)
                                  \ {<<>>}
                 IN  /\ nodes'[i].label # <<>>
                     /\ nodes'[i].label \in given \cup {InferLabel(nodes'[i].id)}
                     /\ given = {} => nodes'[i].label = InferLabel(nodes'[i].id)
      ]_vars

C12_Witness ==
    /\ gpc = "merged"
    /\ merges = 2
    /\ last_rows = <<RowRelabelled>>
    /\ \E i \in 1..Len(nodes) :
          nodes[i].id = UriA /\ nodes[i].label = <<"Chronic", "stress">>
    /\ \E i \in 1..Len(nodes) :
          nodes[i].id = UriCommon /\ nodes[i].label = UriCommon
    /\ \E i \in 1..Len(nodes) :
          nodes[i].id = UriLabel /\ nodes[i].label = <<"label">>

(***************************************************************************)
(* Properties of the concept resolver.                                     *)
(***************************************************************************)

\* C13: when the candidates hold at least one URI outside the blacklist of
\* generic namespaces, the concept the resolver returns is never one of the
\* blacklisted candidates, whatever the oracle answered or raised, and its
\* expanded URI is not in a blacklisted namespace either.
C13_NeverReturnsBlacklisted ==
    (/\ rpc = "returned"
     /\ \E i \in 1..Len(candidates) : ~IsBlacklisted(candidates[i].uri))
        => /\ selected_idx \in 1..Len(candidates)
           /\ ~IsBlacklisted(candidates[selected_idx].uri)
           /\ ~IsBlacklisted(selected.uri)

C13_Witness ==
    /\ rpc = "returned"
    /\ oracle_asked
    /\ oracle_answer = UriLabel
    /\ IsBlacklisted(candidates[1].uri)
    /\ candidates[1].uri = UriLabel
    /\ Len(Filtered(candidates)) = 2
    /\ selected_idx = 2

\* C14 as stated: a single candidate left by the blacklist filter is returned
\* without the oracle; otherwise, when the oracle answers unknown, answers a
\* text matching no shortlisted candidate, or fails, the first candidate
\* left by the blacklist filter is returned.
C14_FallbackToFirstRemaining ==
    rpc = "returned" =>
        /\ Len(Filtered(candidates)) = 1
              => (~oracle_asked /\ selected_idx = Filtered(candidates)[1])
        /\ (oracle_asked
              /\ ChooseBestConceptWithLlm(candidates, Shortlisted(candidates),
                                          oracle_answer) = 0)
              => selected_idx = Remaining(candidates)[1]

\* C14 as amended: a single candidate left by the blacklist filter is
\* returned without the oracle; otherwise, when the oracle answers unknown,
\* answers a text matching none of the first five shortlisted candidates, or
\* fails, the resolver returns the first remaining candidate of the
\* preferred (example.org) namespace if there is one, else the first
\* remaining candidate, where the remaining candidates are the ones outside
\* the blacklist, or all of them when every candidate is blacklisted.
C14_FallbackToFirstPreferredOrRemaining ==
    rpc = "returned" =>
        /\ Len(Filtered(candidates)) = 1
              => (~oracle_asked /\ selected_idx = Filtered(candidates)[1])
        /\ (oracle_asked
              /\ ChooseBestConceptWithLlm(candidates, Shortlisted(candidates),
                                          oracle_answer) = 0)
              => /\ Preferred(candidates) # <<>>
                    => selected_idx = Preferred(candidates)[1]
                 /\ Preferred(candidates) = <<>>
                    => selected_idx = Remaining(candidates)[1]

C14_Witness ==
    /\ rpc = "returned"
    /\ oracle_asked
    /\ oracle_answer = <<"UNKNOWN">>
    /\ Len(candidates) = 3
    /\ candidates[1].uri = UriLabel
    /\ candidates[2].uri = UriSnomed
    /\ candidates[3].uri = UriC
    /\ selected_idx = 3

(***************************************************************************)
(* Properties of the multi-hop scenario.                                   *)
(***************************************************************************)

\* C15: in the multi-hop scenario with both URIs resolved, when the first
\* attempt of a step is rejected, the oracle's repair is accepted and the
\* service answers the repaired query with the row of a path, the step
\* succeeds after exactly one regeneration and no fallback, and the links
\* hold a chain from the source URI to the target URI through an
\* intermediate node.
C15_RepairedPathQueryYieldsChain ==
    [][ (/\ pc = "try"
         /\ exec_count = 1
         /\ regen_total = 1
         /\ pc' = "plan"
         /\ last_rows' # <<>>)
          => /\ regen_total' = 1
             /\ oracle_calls' = 1
             /\ fallback_count' = 0
             /\ exec_count' = 2
             /\ HasChain(links', concept_uris[1], concept_uris[2]) ]_vars

(***************************************************************************)
(* Properties of the execution trace recorder.                             *)
(***************************************************************************)

\* C20: the trace is append-only: every recorder operation leaves the steps
\* already recorded in place and unchanged; log_step, start_step,
\* complete_step and fail_step each add exactly one step at the end, and it
\* is the step they return; get_trace, get_summary and format_for_frontend
\* add none; get_trace returns the steps as they are and format_for_frontend
\* a list of the same length and order, each item holding the step's
\* message behind its icon, its status and its timestamp.
C20_TraceAppendOnly ==
    [][ /\ Len(trace') >= Len(trace)
        /\ SubSeq(trace', 1, Len(trace)) = trace
        /\ (last_op' \in {"log_step", "start_step", "complete_step", "fail_step"}
              /\ <<last_op', returned'>> # <<last_op, returned>>)
              => /\ Len(trace') = Len(trace) + 1
                 /\ returned' = trace'[Len(trace')]
        /\ trace' # trace => Len(trace') = Len(trace) + 1
        /\ (last_op' = "get_trace" /\ returned' # returned) => returned' = trace
        /\ (last_op' = "format_for_frontend" /\ trace' = trace) =>
              /\ Len(returned') = Len(trace)
              /\ \A i \in 1..Len(trace) :
                    /\ returned'[i].status = trace[i].status
                    /\ returned'[i].timestamp = trace[i].timestamp
                    /\ returned'[i].message
                          = <<Icon(trace[i].step_type), WS, trace[i].message>>
      ]_vars

C20_Witness ==
    /\ last_op = "format_for_frontend"
    /\ Len(trace) = MaxTrace
    /\ Len(returned) = MaxTrace
    /\ trace[1].status = "failed"
    /\ trace[1].details # NoDetails
    /\ trace[2].status = "started"
    /\ trace[2].timestamp > trace[1].timestamp

(***************************************************************************)
(* Properties of detection, planning and interpretation.                   *)
(***************************************************************************)

\* C16 as stated: an interpretation step reached while the last query
\* result is empty sets the summary to the fixed no-data message, does not
\* call the oracle, and adds exactly one entry to the trace.
C16_NoRowsNoOracleOneEntry ==
    [][ (/\ fpc = "steps"
         /\ plan # <<>>
         /\ Head(plan) = "interpret"
         /\ plan' = Tail(plan)
         /\ ~have_rows)
          => /\ summary' = NoDataMessage
             /\ interp_asked' = interp_asked
             /\ Len(trace') = Len(trace) + 1 ]_vars

\* C16 as amended: an interpretation step reached while the last query
\* result is empty and the step's payload holds no result text (none, or
\* blank) sets the summary to the fixed no-data message, does not call the
\* oracle, and adds two entries to the trace: the started entry announcing
\* the call and one completed result-interpretation entry; when the payload
\* holds result text the oracle is called although there are no rows.
C16_NoRowsNoTextNoOracleTwoEntries ==
    [][ (/\ fpc = "steps"
         /\ plan # <<>>
         /\ Head(plan) = "interpret"
         /\ plan' = Tail(plan)
         /\ ~have_rows)
          => IF Strip(payload_results') = <<>>
             THEN /\ summary' = NoDataMessage
                  /\ interp_asked' = interp_asked
                  /\ Len(trace') = Len(trace) + 2
                  /\ SubSeq(trace', 1, Len(trace)) = trace
                  /\ trace'[Len(trace) + 1].status = "started"
                  /\ trace'[Len(trace) + 1].step_type = "concept_search"
                  /\ trace'[Len(trace) + 2].status = "completed"
                  /\ trace'[Len(trace) + 2].step_type = "result_interpretation"
             ELSE /\ summary' # NoDataMessage
                  /\ interp_asked' = interp_asked + 1
                  /\ Len(trace') \in {Len(trace) + 2, Len(trace) + 3} ]_vars

C16_Witness ==
    /\ fpc = "steps"
    /\ plan = <<>>
    /\ ran_query
    /\ ~have_rows
    /\ payload_results = <<WS>>
    /\ summary = NoDataMessage
    /\ interp_asked = 0
    /\ Len(trace) = step_from + 2

\* The plan of the oracle could not be parsed.
PlanParseFailed ==
    \E i \in 1..Len(trace) : trace[i].message = "Failed to parse LLM execution plan"

\* C17: when the plan of the oracle cannot be parsed, the request ends with
\* the result of the four-step default flow and raises nothing.
C17_ParseFailureReturnsDefaultFlowResult ==
    (PlanParseFailed /\ fpc \in {"returned", "raised"})
        => /\ fpc = "returned"
           /\ raised = "none"
           /\ result = "default_flow_payload"

\* C18: detect_scenario raises nothing and returns a loaded scenario: the
\* stripped answer of the oracle when it is the identifier of a loaded
\* scenario, the default scenario otherwise; when the oracle call fails it
\* returns the default scenario and the trace holds a failed error entry.
C18_DetectionAlwaysReturnsScenario ==
    detect_answer # NotAsked =>
        LET known == {id \in ScenarioIds :
                         detect_answer # OracleRaises /\ Strip(detect_answer) = <<id>>}
        IN  /\ detected \in ScenarioIds
            /\ known # {} => detected \in known
            /\ known = {} => detected = DefaultScenario
            /\ fpc = "plan" => raised = "none"
            /\ Len(trace) >= 2
            /\ trace[1].status = "started"
            /\ detect_answer = OracleRaises
                  => (trace[2].step_type = "error" /\ trace[2].status = "failed")
            /\ detect_answer # OracleRaises
                  => (trace[2].step_type = "scenario_detection"
                        /\ trace[2].status = "completed")

C18_Witness ==
    /\ fpc = "plan"
    /\ detect_answer = OracleRaises
    /\ detected = DefaultScenario
    /\ Len(trace) = 2
    /\ trace[2].status = "failed"

\* C19: a request fails only with a failure of a service call; no exception
\* or malformed answer of the oracle makes it fail.
C19_OnlyServiceFailuresRaised ==
    fpc = "raised" => raised \in CallErrors \ {"JSONDecodeError"}

(***************************************************************************)
(* Properties of the deterministic templates (PrepareSpec).                *)
(***************************************************************************)
\* needle in haystack, for texts.
HasSubSeq(q, s) ==
    \E i \in 1..(Len(q) - Len(s) + 1) : SubSeq(q, i, i + Len(s) - 1) = s

\* The plan gave the step a text that holds a template marker.
PlanQueryTemplated == \E m \in TemplateMarkers : Contains(payload_query, m)

\* A template marker is left in the plan's text once the resolved URIs have
\* been substituted for the source and target placeholders.
PlanQueryKeepsMarker ==
    \E m \in TemplateMarkers :
        Contains(SubstitutePlaceholders(payload_query, concept_uris), m)

\* C21 as stated: for the neighbourhood scenario with an empty or templated
\* plan query and at least one resolved concept URI A, the prepared query is
\* the neighbourhood template and embeds A as the VALUES binding of ?source.
C21_NeighbourhoodTemplateForTemplatedQuery ==
    [][(/\ pc = "prepare"
        /\ scenario_id = "scenario_1_neighbourhood"
        /\ Len(concept_uris) >= 1
        /\ (Strip(payload_query) = <<>> \/ PlanQueryTemplated))
       => /\ sent' = TemplateNeighbourhoodQuery(concept_uris)
          /\ HasSubSeq(sent', <<"VALUES", "?source", "{",
                                UriRef(concept_uris[1]), "}">>)]_vars

\* C21 amended: for the neighbourhood scenario with at least one resolved
\* concept URI A and a plan query that is empty, or that still holds a
\* template marker after the resolved URIs were substituted for its source
\* and target placeholders, the prepared query is the neighbourhood template
\* and embeds A as the VALUES binding of ?source.
C21_NeighbourhoodTemplateEmbedsSource ==
    [][(/\ pc = "prepare"
        /\ scenario_id = "scenario_1_neighbourhood"
        /\ Len(concept_uris) >= 1
        /\ (Strip(payload_query) = <<>> \/ PlanQueryKeepsMarker))
       => /\ sent' = TemplateNeighbourhoodQuery(concept_uris)
          /\ HasSubSeq(sent', <<"VALUES", "?source", "{",
                                UriRef(concept_uris[1]), "}">>)]_vars

C21_Witness ==
    /\ pc = "prepared"
    /\ scenario_id = "scenario_1_neighbourhood"
    /\ concept_uris = <<UriB>>
    /\ ~plan_blank
    /\ Contains(sent, "VALUES")
    /\ HasSubSeq(sent, <<"VALUES", "?source", "{", UriRef(UriB), "}">>)

\* The union of the one-, two- and three-hop path patterns.
BoundedHopUnion ==
    <<"{", "1hop", "}", "UNION", "{", "2hop", "}", "UNION", "{", "3hop", "}">>

BeforeFilter(q) == UpTo(q, "FILTER")

\* The text between FILTER and the parenthesis that closes the predicate
\* list.
FilterBody(q) == UpTo(After(After(q, "FILTER"), "("), ")")

ValidationShape(q, uris) ==
    /\ Contains(q, UriRef(uris[1]))
    /\ HasSubSeq(q, <<"FILTER", "(", "?relation", "IN", "(">>
                       \o PredicateAllowlist \o <<")", ")">>)
    /\ ~Contains(BeforeFilter(q), UriRef(uris[2]))
    /\ ~Contains(FilterBody(q), UriRef(uris[2]))

C24_FederationTemplateApplied ==
    [][(/\ pc = "prepare"
        /\ scenario_id = "scenario_3_federation"
        /\ Len(concept_uris) = 2
        /\ payload_query = <<>>)
       => /\ sent' = TemplateFederationQuery(concept_uris)
          /\ HasSubSeq(sent', <<"VALUES", "?concept1", "{",
                                UriRef(concept_uris[1]), "}">>)
          /\ HasSubSeq(sent', <<"VALUES", "?concept2", "{",
                                UriRef(concept_uris[2]), "}">>)
          /\ Contains(sent', "owl:sameAs")]_vars

\* C28: a plan query that after placeholder substitution is CONSTRUCT-only
\* (holds CONSTRUCT and no SELECT), in a scenario whose deterministic
\* template has its concept URIs resolved, is replaced: the query sent is
\* that scenario's template and not the CONSTRUCT text.
C28_ConstructOnlyReplacedByTemplate ==
    [][(/\ pc = "prepare"
        /\ Contains(Upper(SubstitutePlaceholders(payload_query, concept_uris)),
                    "CONSTRUCT")
        /\ ~Contains(Upper(SubstitutePlaceholders(payload_query, concept_uris)),
                     "SELECT")
        /\ ScenarioTemplate(scenario_id, concept_uris) # <<>>)
       => /\ sent' = ScenarioTemplate(scenario_id, concept_uris)
          /\ ~Contains(Upper(sent'), "CONSTRUCT")]_vars

\* C27: when, after a rejected execution, the oracle's repair response is
\* not a valid repair (the oracle fails, or the text does not begin with the
\* required query verb), the regeneration counter is not incremented and, if
\* the fallback has not yet been used, the loop proceeds directly to the
\* fallback attempt: the fallback query is substituted and executed next.
C27_InvalidRepairProceedsToFallback ==
    [][(/\ pc = "except"
        /\ RegenAllowed(regen_attempts)
        /\ oracle_calls' # oracle_calls
        /\ repair' = <<>>)
       => /\ regen_attempts' <= regen_attempts
          /\ ~fallback_attempted
                => /\ pc' = "try"
                   /\ fallback_attempted'
                   /\ fallback_count' = fallback_count + 1
                   /\ payload_query' # <<>>
                   /\ payload_query' =
                          BuildFallbackSparql(scenario_id, concept_uris)]_vars

(***************************************************************************)
(* Properties of path rows (GraphSpec).                                    *)
(***************************************************************************)
\* The intermediate nodes a row names, in path order.
PathIntermediates(row) ==
    SelectSeq(<<FirstTruthy(<<Get(row, "intermediate"), Get(row, "inter1"),
                              Get(row, "intermediateNode"),
                              Get(row, "intermediate1")>>),
                Get(row, "intermediate2")>>,
              LAMBDA u : u # <<>>)

\* The relations of the hops, in path order.
PathRelations(row) ==
    <<FirstTruthy(<<Get(row, "relation1"), Get(row, "r1")>>),
      FirstTruthy(<<Get(row, "relation2"), Get(row, "r2")>>),
      FirstTruthy(<<Get(row, "relation3"), Get(row, "r3")>>)>>

\* One link key per hop of the path the row encodes.
HopLinks(row, uris) ==
    LET path == <<SourceUri(row, uris)>> \o PathIntermediates(row)
                    \o <<TargetUri(row, uris)>>
    IN  {<<path[i], path[i + 1], PathRelations(row)[i]>> :
             i \in 1..(Len(path) - 1)}

\* C29: for a result row that encodes a multi-hop path (intermediate columns
\* present), the merge synthesizes exactly one link per hop and no direct
\* source-to-target link: two links for a two-hop row, three for a three-hop
\* row, rows shaped as the multi-hop template returns them included.
C29_OneLinkPerHop ==
    (/\ gpc = "merged"
     /\ merges = 1
     /\ Len(last_rows) = 1
     /\ PathIntermediates(last_rows[1]) # <<>>
     /\ SourceUri(last_rows[1], concept_uris) # <<>>
     /\ TargetUri(last_rows[1], concept_uris) # <<>>)
    => /\ {LinkKey(links[i]) : i \in 1..Len(links)}
            = HopLinks(last_rows[1], concept_uris)
       /\ Len(links) = Len(PathIntermediates(last_rows[1])) + 1

(***************************************************************************)
(* Properties of URI expansion (ConceptSpec).                              *)
(***************************************************************************)
\* The shortlisted candidates that the oracle's answer refers to, in
\* abbreviated or in full form.
ReferredCandidates(cs, answer) ==
    {k \in 1..Len(TopK(Shortlisted(cs))) :
        /\ Strip(answer) # <<>>
        /\ ExpandUri(Strip(answer)) = ExpandUri(cs[TopK(Shortlisted(cs))[k]].uri)}

\* C30: concept URIs in abbreviated form, carried by a candidate or
\* returned by the oracle as its choice, are expanded with the prefix table
\* before any comparison and before being stored: the concept returned has
\* its URI in full form, and an oracle answer that refers to a shortlisted
\* candidate, in abbreviated or in full form, selects that candidate.
C30_AbbreviatedAndFullCompareEqual ==
    rpc = "returned" /\ selected_idx # 0
    => /\ selected.uri = ExpandUri(candidates[selected_idx].uri)
       /\ (oracle_asked /\ oracle_answer # OracleRaises
              /\ ReferredCandidates(candidates, oracle_answer) # {})
            => selected.uri = ExpandUri(Strip(oracle_answer))

(***************************************************************************)
(* Properties of concurrent requests (RequestsSpec).                       *)
(***************************************************************************)
CallsOf(r) == {c \in in_flight : c.req = r}

\* C25: within one request, plan steps run strictly sequentially in plan
\* order and external calls are issued one at a time: no call of step i+1
\* is issued before the outcome of step i has been folded into the context
\* and the result, and no two external calls of the same request are ever
\* in flight together.
C25_StepsSequentialOneCallAtATime ==
    \A r \in Requests :
        /\ Cardinality(CallsOf(r)) <= 1
        /\ \A c \in CallsOf(r) :
              /\ req[r].pc = "waiting"
              /\ c.step = req[r].k
        /\ req[r].folded = [i \in 1..Len(req[r].folded) |-> i]
        /\ req[r].pc \in {"ready", "waiting"} => req[r].k = Len(req[r].folded) + 1

C25_Witness ==
    /\ Cardinality(CallsOf(2)) = 1
    /\ \E c \in CallsOf(2) : c.step = 3 /\ c.id = 4
    /\ req[2].folded = <<1, 2>>
    /\ Len(ContextOf(2).concept_uris) = 2

C31_NodeListDeduplicated ==
    \A i, j \in 1..Len(nodes) : nodes[i].id = nodes[j].id => i = j

\* C37: after any sequence of merges, the source and the target of every
\* link are identifiers of nodes present in the node list.
C37_LinkEndpointsAreNodes ==
    \A i \in 1..Len(links) :
        /\ NodeIndex(nodes, links[i].source) # 0
        /\ NodeIndex(nodes, links[i].target) # 0

C37_Witness ==
    /\ gpc = "merged"
    /\ merges = 2
    /\ last_rows = <<RowTwoHop>>
    /\ concept_nodes = 0
    /\ Len(links) >= 3
    /\ \E i \in 1..Len(links) : links[i].target = UriC
    /\ \E i \in 1..Len(links) : links[i].source = UriC
(***************************************************************************)
(* Failure of a query-execution step (RequestsSpec).                       *)
(***************************************************************************)
\* The request is at a query-execution step of its plan.
AtQueryStep(m) ==
    /\ m.k <= Len(m.job.plan)
    /\ m.job.plan[m.k].tool = "/mcp/sparql"

\* C32: when execute_scenario fails after at least one query-execution
\* attempt, the trace entry recording the last query is appended before the
\* final error entry and carries the text of the last query that was sent,
\* the rejected one included.
C32_LastAttemptedQueryLogged ==
    \A r \in Requests :
        (req[r].pc = "failed" /\ req[r].attempt >= 1)
        => LET tr == req[r].trace
           IN  /\ Len(tr) >= 2
               /\ tr[Len(tr)].message = "Scenario execution failed"
               /\ tr[Len(tr) - 1].message = "Last SPARQL query before failure"
               /\ tr[Len(tr) - 1].details = <<"query_preview", req[r].query>>

\* C39: while a query-execution step runs and when it ends in failure, the
\* result's nodes, links and issued queries and the context's last rows,
\* last query and resolved URIs stay what they were when the step began;
\* the trace only grows.
C39_FailedQueryStepLeavesStateAlone ==
    [][\A r \in Requests :
          (/\ req[r].pc \in {"ready", "waiting"}
           /\ AtQueryStep(req[r])
           /\ req'[r].k = req[r].k
           /\ req'[r].pc \in {"ready", "waiting", "failed"})
          => /\ req'[r].results = req[r].results
             /\ ContextOf(r)' = ContextOf(r)
             /\ Len(req'[r].trace) >= Len(req[r].trace)
             /\ SubSeq(req'[r].trace, 1, Len(req[r].trace)) = req[r].trace
      ]_vars

C39_Witness ==
    \E r \in Requests :
        /\ req[r].pc = "failed"
        /\ req[r].job = JobSecondQueryFails
        /\ req[r].k = 2
        /\ Len(req[r].results.nodes) = 2
        /\ Len(req[r].results.sparql_queries) = 1
        /\ ContextOf(r).last_sparql_results = <<RowPlain>>
        /\ ContextOf(r).last_sparql_query # req[r].query
(***************************************************************************)
(* The final summary of a parsed plan (RequestsSpec).                      *)
(***************************************************************************)
\* An interpretation step of the plan was folded (its summary is not empty).
SummaryFromPlanStep(m) ==
    \E i \in 1..Len(m.folded) : m.job.plan[m.folded[i]].tool = "/mcp/interpret"

\* A query step of the plan was folded with rows in its answer.
RowsCollected(m) ==
    \E i \in 1..Len(m.folded) :
        LET st == m.job.plan[m.folded[i]]
        IN  /\ st.tool = "/mcp/sparql"
            /\ \E j \in 1..Len(st.outcomes) :
                  st.outcomes[j].ok /\ st.outcomes[j].rows # <<>>

\* C33: at the end of a parsed plan, when no interpretation step produced a
\* summary and the plan's query steps collected rows, exactly one synthetic
\* interpretation call is issued; never more than one per request, and none
\* when a summary already exists.
C33_OneFinalSummaryCallWhenRowsCollected ==
    \A r \in Requests :
        req[r].pc = "done"
        => /\ req[r].final_calls <= 1
           /\ SummaryFromPlanStep(req[r]) => req[r].final_calls = 0
           /\ (~SummaryFromPlanStep(req[r]) /\ RowsCollected(req[r]))
                 => req[r].final_calls = 1
(***************************************************************************)
(* The demo shortcut and what execute_scenario returns (FlowSpec).         *)
(***************************************************************************)
\* The oracle was asked for a plan (line 257 follows the entry of line 219).
PlanRequested ==
    \E i \in 1..Len(trace) : trace[i].message = "Executing scenario"

\* C34: with a recognized demo identifier execute_scenario returns the demo
\* result without asking the oracle for a plan, without running a plan step
\* and before the scenario id is validated; with an absent or unrecognized
\* identifier the normal planning path is taken.
C34_DemoShortcutBypassesPlanning ==
    fpc \notin {"detect", "plan"}
    => IF demo_id \in RecognizedDemoIds
       THEN /\ fpc = "returned"
            /\ result = "demo_payload"
            /\ raised = "none"
            /\ ~PlanRequested
            /\ ~ran_query
            /\ interp_asked = 0
            /\ plan = <<>>
       ELSE /\ result # "demo_payload"
            /\ detected \in ScenarioIds => PlanRequested
            /\ detected \notin ScenarioIds => raised = "ValueError"

C34_Witness ==
    /\ fpc = "returned"
    /\ demo_id = "DEEP_REASONING"
    /\ detected = "scenario_3_federation"
    /\ result = "demo_payload"

\* C35: whenever execute_scenario returns normally, through the planned
\* path, the demo shortcut or the default flow, the value returned is a
\* result record (nodes, links, summary, queries, trace), never None.
C35_ReturnsResultRecord ==
    fpc = "returned"
    => result \in {"final_payload", "default_flow_payload", "demo_payload"}
(***************************************************************************)
(* Template markers in the query sent (PrepareSpec).                       *)
(***************************************************************************)
\* C36: no query text sent to the execution service by a query-execution
\* step contains an unresolved template marker, for every scenario id and
\* for zero, one or two resolved concept URIs.
C36_NoMarkerInQuerySent ==
    pc = "prepared" => \A m \in TemplateMarkers : ~Contains(sent, m)
(***************************************************************************)
(* What the concept resolver returns (ConceptSpec).                        *)
(***************************************************************************)
\* C38: for every answer of the oracle, a well-formed URI that is not among
\* the candidates included, the concept returned is one of the candidates
\* given (with its URI expanded), and nothing is returned only when the
\* candidate list is empty.
C38_ReturnsOneOfTheCandidates ==
    rpc = "returned"
    => /\ selected_idx = 0 <=> candidates = <<>>
       /\ selected_idx # 0
             => /\ selected_idx \in 1..Len(candidates)
                /\ selected.label = candidates[selected_idx].label
                /\ selected.uri = ExpandUri(candidates[selected_idx].uri)
       /\ selected_idx = 0 => selected = <<>>

C38_Witness ==
    /\ rpc = "returned"
    /\ oracle_asked
    /\ oracle_answer = UriSnomed
    /\ Len(candidates) >= 2
    /\ \A i \in 1..Len(candidates) : ExpandUri(candidates[i].uri) # UriSnomed
    /\ selected_idx # 0
(***************************************************************************)
(* Delivery of status messages (BroadcastSpec).                            *)
(***************************************************************************)
\* The messages scheduled for queue q and not yet put, oldest first.
Scheduled(q) ==
    LET mine == SelectSeq(loop_calls, LAMBDA c : c.queue = q)
    IN  [i \in 1..Len(mine) |-> mine[i].message]

\* C40: under any interleaving of subscribe, unsubscribe and publish, each
\* message published while a queue is subscribed is delivered to that queue
\* exactly once and in publish order, the queue receives no message
\* published before it subscribed or after it unsubscribed, and a publish
\* with no subscribers changes nothing.
C40_DeliveredOnceInPublishOrder ==
    /\ [](\A q \in 1..Len(queues) : queues[q] \o Scheduled(q) = due[q])
    /\ [][(published' # published /\ subscribers = {})
             => UNCHANGED <<subscribers, queues, loop_calls, due>>]_vars
====
